---- MODULE Spec2Model ----
(***************************************************************************)
(* PicklePot: the browser client (src/app.js) over a Firestore datastore,  *)
(* and the payment server (the Flask program listed in src/README.md):     *)
(* admission of entries (joinPot), checkout-session creation, the gateway  *)
(* webhook, the admin per-entry actions and relocation (moveEntry).        *)
(*                                                                         *)
(* Conventions.  A missing document field is modelled by the value the     *)
(* code's own defaulting treats it as: "" for a string, FALSE for a flag,  *)
(* NoNum for a number or timestamp.  A nullable reference is a sequence of *)
(* length 0 or 1.  Money in the datastore (buy-ins, in dollars) is counted *)
(* in mills (1/1000 dollar) so that sub-cent values exist; gateway amounts *)
(* are in cents as in the code.                                            *)
(***************************************************************************)
EXTENDS Integers, Sequences, FiniteSets, TLC

\* ------------------------------------------------------------- bounds
MaxEntries == 3      \* auto-generated entry ids available to add()
MaxSessions == 2     \* checkout sessions the gateway holds
MaxTime == 2         \* server clock ticks
MaxCred == 4         \* owner codes, and salts, that can be drawn

\* ------------------------------------------------- program constants
MinCents == 50       \* smallest amount the gateway accepts, in cents

NoNum == 0 - 1       \* an absent number / timestamp (null, undefined)

IdPool == <<"e1", "e2", "e3", "e4", "e5", "e6">>
AutoIds == {IdPool[i] : i \in 1..MaxEntries}
StrayId == "ex"      \* an id no add() ever generated
PotIds == {"A", "B"}

\* ---------------------------------------------------------- variables
VARIABLES
  now,                 \* the datastore server's clock
  pots,                \* pots/{potId}: potId -> document
  entries,             \* pots/{potId}/entries/{entryId}: potId -> (entryId -> document)
  nextId,              \* index of the next auto-generated entry id
  sessions,            \* checkout sessions created at the gateway
  wh,                  \* the webhook's last response; failed: its write raised and was logged
  applied,             \* history: <<session, kind>> of the events whose write committed
  owner,               \* pots/{potId}: owner_code_hash and owner_token_salt
  issued,              \* history: the owner codes and salts drawn so far, per pot,
                       \*   and the pots a presented code or link was verified for
  auth,                \* the last response of an owner endpoint
  JOIN_POTS_CACHE,     \* per client
  potsSeen,            \* per client: query result last delivered to the open-pots listener
  jsel,                \* per client: value of #j-pot-select
  CURRENT_JOIN_POT,    \* per client
  JOIN_ENTRIES_UNSUB,  \* per client: the pot the totals listener watches, and the
                       \* entry set last delivered to it
  totals,              \* per client: what #j-pot-total and the big totals show
  join,                \* per client: joinPot's position and locals
  msg,                 \* per client: text of #join-msg
  siteAdmin,           \* localStorage site_admin of the admin browser
  CURRENT_DETAIL_POT,  \* admin browser
  LAST_DETAIL_ENTRIES, \* admin browser
  detailSub,           \* admin browser: pot the registrations listener watches
  detailSeen,          \* admin browser: entry set last delivered to that listener
  rendered,            \* admin browser: rows of #adminTable carrying action buttons
  load,                \* admin browser: onLoadPotClicked's position
  move,                \* admin browser: moveEntry's position and locals
  alertBox             \* admin browser: the alert requireAdmin() showed last

dbVars == <<now, pots, entries, nextId>>
ownerVars == <<owner, issued, auth>>
hookVars == <<sessions, wh, applied, ownerVars>>
joinVars == <<JOIN_POTS_CACHE, potsSeen, jsel, CURRENT_JOIN_POT, JOIN_ENTRIES_UNSUB,
             totals, join, msg>>
adminVars == <<siteAdmin, CURRENT_DETAIL_POT, LAST_DETAIL_ENTRIES, detailSub,
               detailSeen, rendered, load, move, alertBox>>
vars == <<dbVars, hookVars, joinVars, adminVars>>

Clients == {"c1", "c2"}
Admin == "c1"        \* the browser whose Pot Detail pane the model follows

\* ------------------------------------------------------------ helpers
Put(f, k, v) == [x \in (DOMAIN f) \cup {k} |-> IF x = k THEN v ELSE f[x]]
Del(f, k) == [x \in (DOMAIN f) \ {k} |-> f[x]]
EmptyMap == [x \in {} |-> TRUE]

\* String.prototype.toLowerCase on the strings the model uses.
ToLowerCase(s) ==
  CASE s = "Ann" -> "ann"
    [] s = "ANN" -> "ann"
    [] s = "Bob" -> "bob"
    [] s = "Lee" -> "lee"
    [] s = "a@x.com" -> "a@x.com"
    [] s = "A@X.COM" -> "a@x.com"
    [] s = "b@x.com" -> "b@x.com"
    [] OTHER -> s

\* A display name is the sequence of its space-separated words.
LowerName(n) == [i \in 1..Len(n) |-> ToLowerCase(n[i])]

\* An entry document with every field absent.
BlankEntry ==
  [name |-> <<>>, name_lc |-> <<>>, email |-> "", email_lc |-> "",
   member_type |-> "", player_skill |-> "", pay_type |-> "",
   applied_buyin |-> 0, paid |-> FALSE, status |-> "",
   created_at |-> NoNum, paid_amount |-> NoNum, paid_at |-> NoNum,
   moved_from |-> "", moved_at |-> NoNum]

\* ============================================================ gateway
EventKinds == {"checkout.session.completed",
               "checkout.session.async_payment_succeeded",
               "checkout.session.expired"}

\* stripe.checkout.Session.create(...): the session the gateway stores
NewSession(pot_id, entry_id, amount) ==
  [client_reference_id |-> <<pot_id, entry_id>>,
   metadata |-> [pot_id |-> pot_id, entry_id |-> entry_id],
   amount_total |-> amount]

\* POST /create-checkout-session: "ok" with a session, or an error kind.
\* gatewayFails: stripe.checkout.Session.create raised.
CheckoutOutcomeMutant(amount, gatewayFails) ==
  IF gatewayFails THEN "gateway_error" ELSE "ok"
CheckoutOutcome(amount, gatewayFails) ==
  IF amount < MinCents THEN "too_small"
  ELSE IF gatewayFails THEN "gateway_error"
  ELSE "ok"

\* The server side of one request: the session list afterwards.
create_checkout_session(pot_id, entry_id, amount, gatewayFails) ==
  IF CheckoutOutcome(amount, gatewayFails) = "ok"
  THEN Append(sessions, NewSession(pot_id, entry_id, amount))
  ELSE sessions

\* ============================================================ webhook
\* stripe.Webhook.construct_event succeeded
SignatureVerifiedMutant(sig_ok) == TRUE
SignatureVerified(sig_ok) == sig_ok

\* etype in ("checkout.session.completed", "checkout.session.async_payment_succeeded")
IsCompletedKindMutant(etype) == etype = "checkout.session.completed"
IsCompletedKind(etype) ==
  etype \in {"checkout.session.completed", "checkout.session.async_payment_succeeded"}

\* meta = session.get("metadata") or {}; pot_id = meta.get("pot_id"); ...
MetaPot(ev) == ev.metadata.pot_id
MetaEntry(ev) == ev.metadata.entry_id

\* if pot_id and entry_id:
CorrelatedMutant(ev) == MetaPot(ev) # "" \/ MetaEntry(ev) # ""
Correlated(ev) == MetaPot(ev) # "" /\ MetaEntry(ev) # ""

\* .set({paid, paid_amount, paid_at}, merge=True) on one entry document
MarkPaid(es, pot_id, entry_id, amount_total) ==
  LET col == IF pot_id \in DOMAIN es THEN es[pot_id] ELSE EmptyMap
      old == IF entry_id \in DOMAIN col THEN col[entry_id] ELSE BlankEntry
      new == [old EXCEPT !.paid = TRUE, !.paid_amount = amount_total, !.paid_at = now]
  IN Put(es, pot_id, Put(col, entry_id, new))

\* does this request reach the datastore write?
WritesEntryMutant(sig_ok, ev) == IsCompletedKind(ev.type) /\ Correlated(ev)
WritesEntry(sig_ok, ev) ==
  SignatureVerified(sig_ok) /\ IsCompletedKind(ev.type) /\ Correlated(ev)

\* HTTP status of the response
WebhookStatusMutant(sig_ok, ev, writeFails) ==
  IF ~SignatureVerified(sig_ok) THEN 400
  ELSE IF WritesEntry(sig_ok, ev) /\ writeFails THEN 500
  ELSE 200
WebhookStatus(sig_ok, ev, writeFails) ==
  IF ~SignatureVerified(sig_ok) THEN 400 ELSE 200

\* POST /webhook, one request from construct_event to the response.
\* writeFails: the Firestore set() raised.
webhook(sig_ok, ev, writeFails) ==
  /\ LET writes == WritesEntry(sig_ok, ev)
         commit == writes /\ ~writeFails
     IN /\ wh' = [status |-> WebhookStatus(sig_ok, ev, writeFails),
                  failed |-> writes /\ writeFails]
        /\ applied' = IF commit THEN applied \cup {<<ev.id, ev.type>>} ELSE applied
        /\ entries' = IF commit
                      THEN MarkPaid(entries, MetaPot(ev), MetaEntry(ev), ev.amount_total)
                      ELSE entries
  /\ UNCHANGED <<now, pots, nextId, sessions, ownerVars, joinVars, adminVars>>

\* The event object the gateway sends for session number s: the session's
\* fields, with either correlation channel possibly incomplete in it.
\* keep: the metadata keys still present; dropRef: client_reference_id is gone.
MetaShapes == {"both", "pot_id", "entry_id", "none"}
EventOf(s, kind, keep, dropRef) ==
  [id |-> s, type |-> kind,
   metadata |->
     [pot_id |-> IF keep \in {"both", "pot_id"}
                 THEN sessions[s].metadata.pot_id ELSE "",
      entry_id |-> IF keep \in {"both", "entry_id"}
                   THEN sessions[s].metadata.entry_id ELSE ""],
   client_reference_id |-> IF dropRef THEN <<"", "">>
                           ELSE sessions[s].client_reference_id,
   amount_total |-> sessions[s].amount_total]

\* The gateway delivers (or re-delivers) an event about one of its sessions.
Delivery(s, kind, keep, dropRef, writeFails) ==
  webhook(TRUE, EventOf(s, kind, keep, dropRef), writeFails)
GatewayDelivers ==
  \E s \in 1..Len(sessions), kind \in EventKinds, keep \in MetaShapes,
     dropRef \in BOOLEAN, writeFails \in BOOLEAN :
    /\ writeFails => WritesEntry(TRUE, EventOf(s, kind, keep, dropRef))
    /\ dropRef => keep \in {"both", "none"}
    /\ Delivery(s, kind, keep, dropRef, writeFails)

\* Anybody posts a body whose signature does not verify.
ForgedAmounts == {2000}
ForgedEvent(p, e, a, kind) ==
  [id |-> 0, type |-> kind, metadata |-> [pot_id |-> p, entry_id |-> e],
   client_reference_id |-> <<p, e>>, amount_total |-> a]
Forgery(p, e, a, kind) == webhook(FALSE, ForgedEvent(p, e, a, kind), FALSE)
ForgedCallback ==
  \E p \in PotIds, a \in ForgedAmounts, kind \in EventKinds :
  \E e \in DOMAIN entries[p] :
    Forgery(p, e, a, kind)

\* A request to POST /create-checkout-session that does not come from joinPot
\* (the endpoint takes any pot_id, entry_id and amount_cents).
DirectAmounts == {30, 2000}
DirectCheckout(p, ids) ==
  \E a \in DirectAmounts, gatewayFails \in BOOLEAN :
  \E e \in DOMAIN entries[p] \cup ids :
    /\ Len(sessions) < MaxSessions
    /\ sessions' = create_checkout_session(p, e, a, gatewayFails)
    /\ sessions' # sessions
    /\ UNCHANGED <<dbVars, wh, applied, ownerVars, joinVars, adminVars>>

\* ---------- Owner access (magic link, owner code): rotate, revoke
\* Codes and salts are random strings; the model draws them from numbered
\* pools and never draws one twice.
Hash(code) == <<"hash", code>>
LinkToken(potId, salt) == <<"token", potId, salt>>

\* issueInitial at pot creation: pot A got code 1 and salt 1, pot B code 2
\* and salt 2
InitialCode(potId) == IF potId = "A" THEN 1 ELSE 2
InitialSalt(potId) == IF potId = "A" THEN 1 ELSE 2
FreshCodes == (1..MaxCred) \ {k[2] : k \in issued.codes}
FreshSalts == (1..MaxCred) \ {k[2] : k \in issued.salts}

\* verify(potId, presentedCodeOrToken): key is <<"code", c>> or <<"link", t>>
verify(potId, key) ==
  IF key[1] = "code" THEN Hash(key[2]) = owner[potId].owner_code_hash
  ELSE key[2] = LinkToken(potId, owner[potId].owner_token_salt)

\* every code ever issued, and every link ever built, for any pot
IssuedKeys ==
  {<<"code", k[2]>> : k \in issued.codes}
    \cup {<<"link", LinkToken(k[1], k[2])>> : k \in issued.salts}

\* the response of an owner endpoint
Response(op, potId, ok, code, salt) ==
  [op |-> op, pot |-> potId, ok |-> ok,
   new_code |-> IF ok THEN code ELSE NoNum,
   new_salt |-> IF ok THEN salt ELSE NoNum]

\* POST /pots/{pot_id}/owner/auth {key} or {code}
ownerAuth(potId, key) ==
  /\ auth' = Response("auth", potId, verify(potId, key), NoNum, NoNum)
  /\ issued' = IF verify(potId, key)
               THEN [issued EXCEPT !.verified = @ \cup {potId}] ELSE issued
  /\ UNCHANGED <<dbVars, sessions, wh, applied, owner, joinVars, adminVars>>

\* POST /pots/{pot_id}/owner/rotate-code -> {new_code}
rotateCodeMutant(potId, key, code) ==
  /\ code \in FreshCodes
  /\ auth' = Response("rotate-code", potId, verify(potId, key), code, NoNum)
  /\ IF verify(potId, key)
     THEN /\ owner' = [owner EXCEPT ![potId] = [owner_code_hash |-> Hash(code),
                                                owner_token_salt |-> 0]]
          /\ issued' = [issued EXCEPT !.codes = @ \cup {<<potId, code>>},
                                      !.verified = @ \cup {potId}]
     ELSE UNCHANGED <<owner, issued>>
  /\ UNCHANGED <<dbVars, sessions, wh, applied, joinVars, adminVars>>
rotateCode(potId, key, code) ==
  /\ code \in FreshCodes
  /\ auth' = Response("rotate-code", potId, verify(potId, key), code, NoNum)
  /\ IF verify(potId, key)
     THEN /\ owner' = [owner EXCEPT ![potId].owner_code_hash = Hash(code)]
          /\ issued' = [issued EXCEPT !.codes = @ \cup {<<potId, code>>},
                                      !.verified = @ \cup {potId}]
     ELSE UNCHANGED <<owner, issued>>
  /\ UNCHANGED <<dbVars, sessions, wh, applied, joinVars, adminVars>>

\* POST /pots/{pot_id}/owner/rotate-link -> {manage_url}
rotateLinkMutant(potId, key, salt) ==
  /\ salt \in FreshSalts
  /\ auth' = Response("rotate-link", potId, verify(potId, key), NoNum, salt)
  /\ IF verify(potId, key)
     THEN /\ owner' = [owner EXCEPT ![potId] = [owner_code_hash |-> Hash(0),
                                                owner_token_salt |-> salt]]
          /\ issued' = [issued EXCEPT !.salts = @ \cup {<<potId, salt>>},
                                      !.verified = @ \cup {potId}]
     ELSE UNCHANGED <<owner, issued>>
  /\ UNCHANGED <<dbVars, sessions, wh, applied, joinVars, adminVars>>
rotateLink(potId, key, salt) ==
  /\ salt \in FreshSalts
  /\ auth' = Response("rotate-link", potId, verify(potId, key), NoNum, salt)
  /\ IF verify(potId, key)
     THEN /\ owner' = [owner EXCEPT ![potId].owner_token_salt = salt]
          /\ issued' = [issued EXCEPT !.salts = @ \cup {<<potId, salt>>},
                                      !.verified = @ \cup {potId}]
     ELSE UNCHANGED <<owner, issued>>
  /\ UNCHANGED <<dbVars, sessions, wh, applied, joinVars, adminVars>>

\* POST /pots/{pot_id}/owner/revoke-all -> {new_code, manage_url}: one write
\* of both fields
revokeAllMutant(potId, key, code, salt) ==
  /\ code \in FreshCodes
  /\ salt \in FreshSalts
  /\ auth' = Response("revoke-all", potId, verify(potId, key), code, salt)
  /\ IF verify(potId, key)
     THEN /\ owner' = [owner EXCEPT ![potId].owner_code_hash = Hash(code)]
          /\ issued' = [issued EXCEPT !.codes = @ \cup {<<potId, code>>},
                                      !.salts = @ \cup {<<potId, salt>>},
                                      !.verified = @ \cup {potId}]
     ELSE UNCHANGED <<owner, issued>>
  /\ UNCHANGED <<dbVars, sessions, wh, applied, joinVars, adminVars>>
revokeAll(potId, key, code, salt) ==
  /\ code \in FreshCodes
  /\ salt \in FreshSalts
  /\ auth' = Response("revoke-all", potId, verify(potId, key), code, salt)
  /\ IF verify(potId, key)
     THEN /\ owner' = [owner EXCEPT ![potId] = [owner_code_hash |-> Hash(code),
                                                owner_token_salt |-> salt]]
          /\ issued' = [issued EXCEPT !.codes = @ \cup {<<potId, code>>},
                                      !.salts = @ \cup {<<potId, salt>>},
                                      !.verified = @ \cup {potId}]
     ELSE UNCHANGED <<owner, issued>>
  /\ UNCHANGED <<dbVars, sessions, wh, applied, joinVars, adminVars>>

\* The datastore server's clock advances.
Tick ==
  /\ now < MaxTime
  /\ now' = now + 1
  /\ UNCHANGED <<pots, entries, nextId, hookVars, joinVars, adminVars>>

\* ============================================================= client
\* ---------- Utility: payment methods map
getPaymentMethodsMutant(p) ==
  [stripe |-> TRUE,
   zelle |-> p.payment_methods.zelle \/ p.pay_zelle # "",
   cashapp |-> p.payment_methods.cashapp \/ p.pay_cashapp # "",
   onsite |-> p.payment_methods.onsite \/ p.pay_onsite]
getPaymentMethods(p) ==
  [stripe |-> p.payment_methods.stripe,
   zelle |-> p.payment_methods.zelle \/ p.pay_zelle # "",
   cashapp |-> p.payment_methods.cashapp \/ p.pay_cashapp # "",
   onsite |-> p.payment_methods.onsite \/ p.pay_onsite]

\* ---------- Active list
PotOrder == <<"A", "B">>      \* document-id order of a query snapshot
PotIndex(id) == CHOOSE i \in 1..Len(PotOrder) : PotOrder[i] = id
StartOrZero(p) == IF p.start_at = NoNum THEN 0 ELSE p.start_at

\* pots.sort((a,b) => as - bs), stable, over a snapshot in document-id order
PotBefore(a, b) ==
  \/ StartOrZero(a) < StartOrZero(b)
  \/ StartOrZero(a) = StartOrZero(b) /\ PotIndex(a.id) < PotIndex(b.id)
RECURSIVE SortPots(_)
SortPots(S) ==
  IF S = {} THEN <<>>
  ELSE LET first == CHOOSE a \in S : \A b \in S \ {a} : PotBefore(a, b)
       IN <<first>> \o SortPots(S \ {first})

\* db.collection('pots').where('status','==','open')
OpenPotsQuery == {pots[id] : id \in {i \in DOMAIN pots : pots[i].status = "open"}}

\* the snapshot callback's filter: if(endMs && endMs <= now) return;
Unexpired(S) == {x \in S : ~(x.end_at # NoNum /\ x.end_at # 0 /\ x.end_at <= now)}

\* JOIN_POTS_CACHE.find(p => p.id === id) || null
FindPot(cache, id) ==
  IF \E i \in 1..Len(cache) : cache[i].id = id
  THEN <<cache[CHOOSE i \in 1..Len(cache) : cache[i].id = id]>>
  ELSE <<>>

\* ---------- Totals
\* Amounts are in mills like the buy-ins; the two shares are kept as
\* updateBigTotals() shows them, in cents.
ZeroTotals ==
  [totalAll |-> 0, totalPaid |-> 0, countAll |-> 0, countPaid |-> 0,
   paidShare |-> 0, totalShare |-> 0]

\* getPotSharePct(potId) in browser c; the model follows the Pot Detail pane
\* of the Admin browser only
getPotSharePct(c, potId) ==
  LET fromJoin == FindPot(JOIN_POTS_CACHE[c], potId)
  IN IF fromJoin # <<>> THEN fromJoin[1].pot_share_pct
     ELSE IF c = Admin /\ CURRENT_DETAIL_POT # <<>> /\ CURRENT_DETAIL_POT[1].id = potId
     THEN CURRENT_DETAIL_POT[1].pot_share_pct
     ELSE 50

\* const isActive = !d.status || d.status === 'active'
isActiveMutant(d) == TRUE
isActive(d) == d.status = "" \/ d.status = "active"

\* const amt = Number(d.applied_buyin || 0)
amt(d) == IF d.applied_buyin = NoNum THEN 0 ELSE d.applied_buyin

\* snap.forEach(doc => {...}) over the documents not yet visited
RECURSIVE Aggregate(_, _, _)
Aggregate(snap, ids, acc) ==
  IF ids = {} THEN acc
  ELSE LET id == CHOOSE x \in ids : TRUE
           d == snap[id]
           all == IF isActive(d) /\ amt(d) > 0
                  THEN [acc EXCEPT !.totalAll = @ + amt(d), !.countAll = @ + 1]
                  ELSE acc
           paid == IF isActive(d) /\ amt(d) > 0 /\ d.paid
                   THEN [all EXCEPT !.totalPaid = @ + amt(d), !.countPaid = @ + 1]
                   ELSE all
       IN Aggregate(snap, ids \ {id}, paid)

\* dollars(total * pct / 100): Number.toFixed(2) of the product, in cents;
\* total is in mills, so the product is in units of 1/100000 dollar
dollarsOfShare(total, pct) == (total * pct + 500) \div 1000

\* the entries listener of watchPotTotals(potId) receives a snapshot
TotalsSnapshotMutant(c) ==
  /\ JOIN_ENTRIES_UNSUB[c] # <<>>
  /\ LET potId == JOIN_ENTRIES_UNSUB[c][1].pot
         snap == entries[potId]
         sums == Aggregate(snap, DOMAIN snap, totals[c])
         pct == getPotSharePct(c, potId)
     IN /\ JOIN_ENTRIES_UNSUB[c][1].seen # <<snap>>
        /\ JOIN_ENTRIES_UNSUB' = [JOIN_ENTRIES_UNSUB EXCEPT ![c] = <<[pot |-> potId, seen |-> <<snap>>]>>]
        /\ totals' = [totals EXCEPT ![c] =
                        [sums EXCEPT !.paidShare = dollarsOfShare(sums.totalPaid, pct),
                                     !.totalShare = dollarsOfShare(sums.totalAll, pct)]]
  /\ UNCHANGED <<dbVars, hookVars, JOIN_POTS_CACHE, potsSeen, jsel, CURRENT_JOIN_POT,
                 join, msg, adminVars>>
TotalsSnapshot(c) ==
  /\ JOIN_ENTRIES_UNSUB[c] # <<>>
  /\ LET potId == JOIN_ENTRIES_UNSUB[c][1].pot
         snap == entries[potId]
         sums == Aggregate(snap, DOMAIN snap, ZeroTotals)
         pct == getPotSharePct(c, potId)
     IN /\ JOIN_ENTRIES_UNSUB[c][1].seen # <<snap>>
        /\ JOIN_ENTRIES_UNSUB' = [JOIN_ENTRIES_UNSUB EXCEPT ![c] = <<[pot |-> potId, seen |-> <<snap>>]>>]
        /\ totals' = [totals EXCEPT ![c] =
                        [sums EXCEPT !.paidShare = dollarsOfShare(sums.totalPaid, pct),
                                     !.totalShare = dollarsOfShare(sums.totalAll, pct)]]
  /\ UNCHANGED <<dbVars, hookVars, JOIN_POTS_CACHE, potsSeen, jsel, CURRENT_JOIN_POT,
                 join, msg, adminVars>>

\* if(UNSUB){ UNSUB(); UNSUB = null; } ... UNSUB = query.onSnapshot(...): the
\* listeners of the scope that are live afterwards; the previous one is
\* detached before the new one is attached
ResubscribeMutant(live, sub) == Append(live, sub)
Resubscribe(live, sub) == <<sub>>

\* watchPotTotals(potId) up to the subscription: the old listener goes; with
\* no pot the big totals are zeroed, otherwise a new listener is attached
watchPotTotals(c, pot) ==
  IF pot = <<>>
  THEN /\ JOIN_ENTRIES_UNSUB' = [JOIN_ENTRIES_UNSUB EXCEPT ![c] = <<>>]
       /\ totals' = [totals EXCEPT ![c].paidShare = 0, ![c].totalShare = 0]
  ELSE /\ JOIN_ENTRIES_UNSUB' = [JOIN_ENTRIES_UNSUB EXCEPT ![c] =
                                  Resubscribe(@, [pot |-> pot[1].id, seen |-> <<>>])]
       /\ UNCHANGED totals

\* The open-pots listener's callback, through onJoinPotChange(): the select
\* is rebuilt, so its value is the first option's.  With no open pot the
\* callback zeroes the big totals and returns before onJoinPotChange():
\* CURRENT_JOIN_POT and the totals listener stay.
PotsSnapshot(c) ==
  /\ potsSeen[c] # <<OpenPotsQuery>>
  /\ LET cache == SortPots(Unexpired(OpenPotsQuery))
         sel == IF cache = <<>> THEN "" ELSE cache[1].id
     IN /\ potsSeen' = [potsSeen EXCEPT ![c] = <<OpenPotsQuery>>]
        /\ JOIN_POTS_CACHE' = [JOIN_POTS_CACHE EXCEPT ![c] = cache]
        /\ jsel' = [jsel EXCEPT ![c] = sel]
        /\ CURRENT_JOIN_POT' = IF cache = <<>> THEN CURRENT_JOIN_POT
                               ELSE [CURRENT_JOIN_POT EXCEPT ![c] = FindPot(cache, sel)]
        /\ IF cache = <<>>
           THEN /\ totals' = [totals EXCEPT ![c].paidShare = 0, ![c].totalShare = 0]
                /\ UNCHANGED JOIN_ENTRIES_UNSUB
           ELSE watchPotTotals(c, FindPot(cache, sel))
  /\ UNCHANGED <<dbVars, hookVars, join, msg, adminVars>>

\* The user picks another option of #j-pot-select.
onJoinPotChange(c, id) ==
  /\ \E i \in 1..Len(JOIN_POTS_CACHE[c]) : JOIN_POTS_CACHE[c][i].id = id
  /\ jsel[c] # id
  /\ jsel' = [jsel EXCEPT ![c] = id]
  /\ CURRENT_JOIN_POT' = [CURRENT_JOIN_POT EXCEPT ![c] = FindPot(JOIN_POTS_CACHE[c], id)]
  /\ watchPotTotals(c, FindPot(JOIN_POTS_CACHE[c], id))
  /\ UNCHANGED <<dbVars, hookVars, JOIN_POTS_CACHE, potsSeen, join, msg, adminVars>>

\* ---------- Join (Stripe + others)
\* rank = s => ({"Any":0,"2.5 - 3.0":1,"3.25+":2}[s] ?? 0)
rankMutant(s) ==
  CASE s = "Any" -> 0
    [] s = "2.5 - 3.0" -> 1
    [] s = "3.25+" -> 1
    [] OTHER -> 0
rank(s) ==
  CASE s = "Any" -> 0
    [] s = "2.5 - 3.0" -> 1
    [] s = "3.25+" -> 2
    [] OTHER -> 0

\* [fname,lname].filter(Boolean).join(' ').trim()
FullName(fname, lname) == SelectSeq(<<fname, lname>>, LAMBDA w : w # "")

\* (email||'').toLowerCase()
NormEmailMutant(email) == email
NormEmail(email) == ToLowerCase(email)

\* Math.round(Number(applied_buyin || 0) * 100), the buy-in being in mills
AmountCents(applied_buyin) == (applied_buyin + 5) \div 10

\* (member_type==='Member' ? (p.buyin_member??0) : (p.buyin_guest??0))
AppliedBuyinMutant(p, member_type) == p.buyin_member
AppliedBuyin(p, member_type) ==
  IF member_type = "Member" THEN p.buyin_member ELSE p.buyin_guest

IdleJoin == [pc |-> "idle"]

\* the first rejection joinPot's synchronous checks produce, or "" for none
JoinRejectionMutant(P, fname, pay_type, playerSkill) ==
  IF P = <<>> THEN "Select a pot to join."
  ELSE LET p == P[1] IN
    IF (p.end_at # NoNum /\ p.end_at # 0 /\ p.end_at <= now) \/ p.status = "closed"
      THEN "Registration is closed for this tournament."
    ELSE IF fname = "" THEN "First name is required."
    ELSE IF pay_type = "" THEN "Choose a payment method."
    ELSE IF rank(playerSkill) > rank(p.skill)
      THEN "Selected skill is higher than pot skill"
    ELSE ""
JoinRejection(P, fname, pay_type, playerSkill) ==
  IF P = <<>> THEN "Select a pot to join."
  ELSE LET p == P[1] IN
    IF (p.end_at # NoNum /\ p.end_at # 0 /\ p.end_at <= now) \/ p.status = "closed"
      THEN "Registration is closed for this tournament."
    ELSE IF fname = "" THEN "First name is required."
    ELSE IF pay_type = "" THEN "Choose a payment method."
    ELSE IF p.skill # "Any" /\ rank(playerSkill) > rank(p.skill)
      THEN "Selected skill is higher than pot skill"
    ELSE ""

\* joinPot() from the click to its first await.
JoinClick(c, fname, lname, email, playerSkill, member_type, pay_type) ==
  /\ join[c].pc = "idle"
  /\ LET P == CURRENT_JOIN_POT[c]
         why == JoinRejection(P, fname, pay_type, playerSkill)
     IN IF why # ""
        THEN /\ msg[c] # why
             /\ msg' = [msg EXCEPT ![c] = why]
             /\ UNCHANGED join
        ELSE LET p == P[1]
                 name == FullName(fname, lname)
                 emailLC == NormEmail(email)
             IN /\ msg' = [msg EXCEPT ![c] = ""]
                /\ join' = [join EXCEPT ![c] =
                     [pc |-> IF emailLC # "" THEN "dupEmail" ELSE "dupName",
                      p |-> p, name |-> name, email |-> email,
                      member_type |-> member_type, player_skill |-> playerSkill,
                      pay_type |-> pay_type,
                      applied_buyin |-> AppliedBuyin(p, member_type),
                      emailLC |-> emailLC, nameLC |-> LowerName(name),
                      dupEmail |-> FALSE, entryId |-> ""]]
  /\ UNCHANGED <<dbVars, hookVars, JOIN_POTS_CACHE, potsSeen, jsel, CURRENT_JOIN_POT, JOIN_ENTRIES_UNSUB, totals, adminVars>>

\* entriesRef.where('email_lc','==', emailLC).limit(1).get(): is it non-empty?
HasEmail(potId, emailLC) ==
  \E e \in DOMAIN entries[potId] : entries[potId][e].email_lc = emailLC
\* entriesRef.where('name_lc','==', nameLC).limit(1).get(): is it non-empty?
HasName(potId, nameLC) ==
  \E e \in DOMAIN entries[potId] : entries[potId][e].name_lc = nameLC

\* fail(message): the message is shown and the button freed
JoinFails(c, message) ==
  /\ msg' = [msg EXCEPT ![c] = message]
  /\ join' = [join EXCEPT ![c] = IdleJoin]

\* The email query is answered.
JoinDupEmail(c) ==
  /\ join[c].pc = "dupEmail"
  /\ join' = [join EXCEPT ![c].pc = "dupName",
                          ![c].dupEmail = HasEmail(join[c].p.id, join[c].emailLC)]
  /\ UNCHANGED <<dbVars, hookVars, JOIN_POTS_CACHE, potsSeen, jsel, CURRENT_JOIN_POT, JOIN_ENTRIES_UNSUB, totals,
                 msg, adminVars>>

\* if(!dupEmail.empty || !dupName.empty)
IsDuplicateMutant(dupEmail, dupName) == dupEmail /\ dupName
IsDuplicate(dupEmail, dupName) == dupEmail \/ dupName

\* The name query is answered; the duplicate decision follows.
JoinDupName(c) ==
  /\ join[c].pc = "dupName"
  /\ LET dupName == join[c].nameLC # <<>> /\ HasName(join[c].p.id, join[c].nameLC)
     IN IF IsDuplicate(join[c].dupEmail, dupName)
        THEN JoinFails(c, "Duplicate registration")
        ELSE /\ join' = [join EXCEPT ![c].pc = "add"]
             /\ UNCHANGED msg
  /\ UNCHANGED <<dbVars, hookVars, JOIN_POTS_CACHE, potsSeen, jsel, CURRENT_JOIN_POT, JOIN_ENTRIES_UNSUB, totals,
                 adminVars>>

\* the entry document joinPot builds
NewEntry(j) ==
  [BlankEntry EXCEPT
     !.name = j.name, !.name_lc = j.nameLC, !.email = j.email, !.email_lc = j.emailLC,
     !.member_type = j.member_type, !.player_skill = j.player_skill,
     !.pay_type = j.pay_type, !.applied_buyin = j.applied_buyin,
     !.paid = FALSE, !.status = "active", !.created_at = now]

\* entriesRef.add(entry) commits; then the code up to the fetch, or to the end.
JoinAdd(c) ==
  /\ join[c].pc = "add"
  /\ nextId <= MaxEntries
  /\ LET j == join[c]
         id == IdPool[nextId]
         cents == AmountCents(j.applied_buyin)
     IN /\ entries' = [entries EXCEPT ![j.p.id] = Put(entries[j.p.id], id, NewEntry(j))]
        /\ nextId' = nextId + 1
        /\ IF j.pay_type = "Stripe"
           THEN IF ~getPaymentMethods(j.p).stripe
                THEN JoinFails(c, "Stripe is disabled for this event.")
                ELSE IF cents < MinCents
                THEN JoinFails(c, "Stripe requires a fee of at least $0.50.")
                ELSE /\ join' = [join EXCEPT ![c].pc = "fetch", ![c].entryId = id]
                     /\ UNCHANGED msg
           ELSE /\ msg' = [msg EXCEPT ![c] = "Joined!"]
                /\ join' = [join EXCEPT ![c] = IdleJoin]
  /\ UNCHANGED <<now, pots, hookVars, JOIN_POTS_CACHE, potsSeen, jsel, CURRENT_JOIN_POT, JOIN_ENTRIES_UNSUB, totals,
                 adminVars>>

\* An awaited datastore call of joinPot rejects: catch(e) { fail('Join failed ...') }
JoinDbError(c) ==
  /\ join[c].pc \in {"dupEmail", "dupName", "add"}
  /\ JoinFails(c, "Join failed")
  /\ UNCHANGED <<dbVars, hookVars, JOIN_POTS_CACHE, potsSeen, jsel, CURRENT_JOIN_POT, JOIN_ENTRIES_UNSUB, totals,
                 adminVars>>

\* fetch(API_BASE + '/create-checkout-session') settles.
\* net: "lost" the request never arrived; "dropped" the response never came
\* back; "ok" the response arrived.
JoinFetch(c, net, gatewayFails) ==
  /\ join[c].pc = "fetch"
  /\ Len(sessions) < MaxSessions
  /\ LET j == join[c]
         cents == AmountCents(j.applied_buyin)
         outcome == CheckoutOutcome(cents, gatewayFails)
     IN /\ sessions' = IF net = "lost" THEN sessions
                       ELSE create_checkout_session(j.p.id, j.entryId, cents, gatewayFails)
        /\ IF net # "ok"
           THEN /\ JoinFails(c, "Network error contacting payment server.")
                /\ UNCHANGED <<JOIN_POTS_CACHE, potsSeen, jsel, CURRENT_JOIN_POT, JOIN_ENTRIES_UNSUB, totals>>
           ELSE IF outcome # "ok"
           THEN /\ JoinFails(c, outcome)
                /\ UNCHANGED <<JOIN_POTS_CACHE, potsSeen, jsel, CURRENT_JOIN_POT, JOIN_ENTRIES_UNSUB, totals>>
           \* window.location.href = data.url: the page is left, and is a
           \* freshly loaded page when the participant comes back
           ELSE /\ join' = [join EXCEPT ![c] = IdleJoin]
                /\ msg' = [msg EXCEPT ![c] = ""]
                /\ JOIN_POTS_CACHE' = [JOIN_POTS_CACHE EXCEPT ![c] = <<>>]
                /\ potsSeen' = [potsSeen EXCEPT ![c] = <<>>]
                /\ jsel' = [jsel EXCEPT ![c] = ""]
                /\ CURRENT_JOIN_POT' = [CURRENT_JOIN_POT EXCEPT ![c] = <<>>]
                /\ JOIN_ENTRIES_UNSUB' = [JOIN_ENTRIES_UNSUB EXCEPT ![c] = <<>>]
                /\ totals' = [totals EXCEPT ![c] = ZeroTotals]
  /\ UNCHANGED <<dbVars, wh, applied, ownerVars, adminVars>>

\* =============================================================== admin
\* ---------- Registrations table
\* .collection('entries').orderBy('created_at','asc'): the documents that
\* have the ordering field, keyed by id
DetailQuery(potId) ==
  LET ids == {e \in DOMAIN entries[potId] : entries[potId][e].created_at # NoNum}
  IN [e \in ids |-> entries[potId][e]]

\* renderRegistrations: the rows that carry action buttons, each with the
\* checkbox state and the data-next attribute it was rendered with
RenderRows(es, canAdmin) ==
  IF canAdmin
  THEN [e \in DOMAIN es |->
          [paid |-> es[e].paid,
           next |-> IF es[e].status = "hold" THEN "active" ELSE "hold"]]
  ELSE EmptyMap

\* requireAdmin(): isSiteAdmin() && CURRENT_DETAIL_POT
requireAdminMutant == CURRENT_DETAIL_POT # <<>>
requireAdmin == siteAdmin /\ CURRENT_DETAIL_POT # <<>>

\* a handler runs if(!requireAdmin()) return; while the check fails: the alert
\* is shown and the handler returns (the Paid checkbox is flipped back)
AdminOnly == "Admin only. Use Admin Login."
LoadFirst == "Load a pot first."
AdminDenied ==
  /\ ~requireAdmin
  /\ alertBox' = IF ~siteAdmin THEN AdminOnly ELSE LoadFirst
  /\ UNCHANGED <<dbVars, hookVars, joinVars, siteAdmin, CURRENT_DETAIL_POT,
                 LAST_DETAIL_ENTRIES, detailSub, detailSeen, rendered, load, move>>

\* 'Admin password?' answered correctly: setSiteAdmin(true); refreshAdminUI()
AdminLogin ==
  /\ ~siteAdmin
  /\ siteAdmin' = TRUE
  /\ rendered' = IF CURRENT_DETAIL_POT # <<>>
                 THEN RenderRows(LAST_DETAIL_ENTRIES, TRUE) ELSE rendered
  /\ UNCHANGED <<dbVars, hookVars, joinVars, CURRENT_DETAIL_POT, LAST_DETAIL_ENTRIES,
                 detailSub, detailSeen, load, move, alertBox>>

\* #site-admin-logout: setSiteAdmin(false); refreshAdminUI()
AdminLogout ==
  /\ siteAdmin
  /\ siteAdmin' = FALSE
  /\ rendered' = IF CURRENT_DETAIL_POT # <<>>
                 THEN RenderRows(LAST_DETAIL_ENTRIES, FALSE) ELSE rendered
  /\ UNCHANGED <<dbVars, hookVars, joinVars, CURRENT_DETAIL_POT, LAST_DETAIL_ENTRIES,
                 detailSub, detailSeen, load, move, alertBox>>

\* onLoadPotClicked() up to its await of pots/{id}.get()
LoadClick(id) ==
  /\ load = <<>>
  /\ load' = <<id>>
  /\ UNCHANGED <<dbVars, hookVars, joinVars, siteAdmin, CURRENT_DETAIL_POT,
                 LAST_DETAIL_ENTRIES, detailSub, detailSeen, rendered, move, alertBox>>

\* the get() is answered; subscribeDetailEntries(pot.id) replaces the
\* listener and shows 'Loading registrations...'
LoadDone ==
  /\ load # <<>>
  /\ load' = <<>>
  /\ IF load[1] \in DOMAIN pots
     THEN /\ CURRENT_DETAIL_POT' = <<pots[load[1]]>>
          /\ detailSub' = Resubscribe(detailSub, load[1])
          /\ detailSeen' = <<>>
          /\ rendered' = EmptyMap
     ELSE UNCHANGED <<CURRENT_DETAIL_POT, detailSub, detailSeen, rendered>>
  /\ UNCHANGED <<dbVars, hookVars, joinVars, siteAdmin, LAST_DETAIL_ENTRIES, move, alertBox>>

\* the registrations listener's callback
DetailSnapshot ==
  /\ detailSub # <<>>
  /\ detailSeen # <<DetailQuery(detailSub[1])>>
  /\ LAST_DETAIL_ENTRIES' = DetailQuery(detailSub[1])
  /\ detailSeen' = <<DetailQuery(detailSub[1])>>
  /\ rendered' = RenderRows(DetailQuery(detailSub[1]), siteAdmin)
  /\ UNCHANGED <<dbVars, hookVars, joinVars, siteAdmin, CURRENT_DETAIL_POT, detailSub,
                 load, move, alertBox>>

\* ---------- Per-entry actions delegated
\* doc(entryId).update(fields): rejects when the document does not exist
CanUpdate(potId, entryId, dbFails) == entryId \in DOMAIN entries[potId] /\ ~dbFails

\* the Paid checkbox of a row is toggled
PaidToggle(id, dbFails) ==
  /\ id \in DOMAIN rendered
  /\ requireAdmin
  /\ LET potId == CURRENT_DETAIL_POT[1].id
         checked == ~rendered[id].paid
     IN IF CanUpdate(potId, id, dbFails)
        THEN /\ entries' = [entries EXCEPT ![potId][id].paid = checked]
             /\ rendered' = [rendered EXCEPT ![id].paid = checked]
        ELSE UNCHANGED <<entries, rendered>>
  /\ UNCHANGED <<now, pots, nextId, hookVars, joinVars, siteAdmin, CURRENT_DETAIL_POT,
                 LAST_DETAIL_ENTRIES, detailSub, detailSeen, load, move, alertBox>>

\* the Hold / Resume button of a row
HoldToggle(id, dbFails) ==
  /\ id \in DOMAIN rendered
  /\ requireAdmin
  /\ LET potId == CURRENT_DETAIL_POT[1].id
     IN IF CanUpdate(potId, id, dbFails)
        THEN entries' = [entries EXCEPT ![potId][id].status = rendered[id].next]
        ELSE UNCHANGED entries
  /\ UNCHANGED <<now, pots, nextId, hookVars, joinVars, adminVars>>

\* the Remove button of a row, confirmed
RemoveEntry(id, dbFails) ==
  /\ id \in DOMAIN rendered
  /\ requireAdmin
  /\ LET potId == CURRENT_DETAIL_POT[1].id
     IN entries' = IF dbFails THEN entries
                   ELSE [entries EXCEPT ![potId] = Del(entries[potId], id)]
  /\ UNCHANGED <<now, pots, nextId, hookVars, joinVars, adminVars>>

\* ---------- Pot status and deletion
\* #btn-hold / #btn-resume: updatePotStatus(newStatus); update() rejects when
\* the pot document is gone; on success onLoadPotClicked() runs again
updatePotStatus(newStatus, dbFails) ==
  /\ requireAdmin
  /\ load = <<>>
  /\ LET id == CURRENT_DETAIL_POT[1].id
     IN IF id \in DOMAIN pots /\ ~dbFails
        THEN /\ pots' = [pots EXCEPT ![id].status = newStatus]
             /\ load' = <<id>>
        ELSE UNCHANGED <<pots, load>>
  /\ UNCHANGED <<now, entries, nextId, hookVars, joinVars, siteAdmin, CURRENT_DETAIL_POT,
                 LAST_DETAIL_ENTRIES, detailSub, detailSeen, rendered, move, alertBox>>

\* #btn-delete, confirmed: deleteCurrentPot(); the pot document goes, its
\* entries stay; attachActivePotsListener() empties the cache and the select
\* and subscribes anew
deleteCurrentPot(dbFails) ==
  /\ requireAdmin
  /\ IF dbFails
     THEN UNCHANGED <<pots, CURRENT_DETAIL_POT, JOIN_POTS_CACHE, potsSeen, jsel>>
     ELSE /\ pots' = Del(pots, CURRENT_DETAIL_POT[1].id)
          /\ CURRENT_DETAIL_POT' = <<>>
          /\ JOIN_POTS_CACHE' = [JOIN_POTS_CACHE EXCEPT ![Admin] = <<>>]
          /\ potsSeen' = [potsSeen EXCEPT ![Admin] = <<>>]
          /\ jsel' = [jsel EXCEPT ![Admin] = ""]
  /\ UNCHANGED <<now, entries, nextId, hookVars, CURRENT_JOIN_POT, JOIN_ENTRIES_UNSUB, totals, join, msg, siteAdmin,
                 LAST_DETAIL_ENTRIES, detailSub, detailSeen, rendered, load, move, alertBox>>

\* #btn-admin-grant / #btn-admin-revoke: arrayUnion / arrayRemove of this
\* device's uid on the loaded pot's adminUids
DeviceUid == "uid-c1"
grantThisDeviceAdmin(dbFails) ==
  /\ requireAdmin
  /\ LET id == CURRENT_DETAIL_POT[1].id
     IN pots' = IF id \in DOMAIN pots /\ ~dbFails
                THEN [pots EXCEPT ![id].adminUids = @ \cup {DeviceUid}]
                ELSE pots
  /\ UNCHANGED <<now, entries, nextId, hookVars, joinVars, adminVars>>
revokeThisDeviceAdmin(dbFails) ==
  /\ requireAdmin
  /\ LET id == CURRENT_DETAIL_POT[1].id
     IN pots' = IF id \in DOMAIN pots /\ ~dbFails
                THEN [pots EXCEPT ![id].adminUids = @ \ {DeviceUid}]
                ELSE pots
  /\ UNCHANGED <<now, entries, nextId, hookVars, joinVars, adminVars>>

\* ---------- Create Pot, Edit Pot
\* two pots as createPot writes them
InitPots ==
  [id \in PotIds |->
     IF id = "A"
     THEN [id |-> "A", status |-> "open", skill |-> "2.5 - 3.0",
           buyin_member |-> 10000, buyin_guest |-> 300,
           date |-> <<>>, time |-> <<>>, start_at |-> NoNum, end_at |-> NoNum,
           payment_methods |-> [stripe |-> TRUE, zelle |-> FALSE,
                                cashapp |-> FALSE, onsite |-> TRUE],
           pay_zelle |-> "", pay_cashapp |-> "", pay_onsite |-> TRUE,
           pot_share_pct |-> 100, adminUids |-> {}]
     ELSE [id |-> "B", status |-> "open", skill |-> "Any",
           buyin_member |-> 5000, buyin_guest |-> 5000,
           date |-> <<0>>, time |-> <<1>>, start_at |-> 1, end_at |-> MaxTime,
           payment_methods |-> [stripe |-> FALSE, zelle |-> FALSE,
                                cashapp |-> FALSE, onsite |-> TRUE],
           pay_zelle |-> "", pay_cashapp |-> "", pay_onsite |-> TRUE,
           pot_share_pct |-> 50, adminUids |-> {}]]

\* The date and time fields of the Create form, and what is done to them in
\* the Edit form
Days == {0}
Hours == {1, 3}
Whens ==
  [date : {<<>>} \cup {<<d>> : d \in Days}, time : {<<>>} \cup {<<h>> : h \in Hours},
   endTime : {<<>>} \cup {<<h>> : h \in Hours}]
Edits ==
  [date : {<<NoNum>>}, time : {<<NoNum>>, <<1>>, <<3>>},
   endTime : {<<NoNum>>, <<>>, <<1>>, <<3>>}]

\* The value of a percentage field: <<>> when it is empty, <<n>> when it
\* holds the numeral n.
PctFields == {<<>>, <<0 - 5>>, <<0>>, <<50>>, <<150>>}
\* Math.max(0, Math.min(100, x))
ClampPct(x) == IF x < 0 THEN 0 ELSE IF x > 100 THEN 100 ELSE x

\* createPot: Number($('#c-pot-pct').value || 100); only the empty string
\* is falsy
CreatePct(field) == IF field = <<>> THEN 100 ELSE field[1]

\* savePotEdits: Number($('#f-pot-pct').value) is finite for a numeral and
\* for the empty string, which is 0
EditPct(field) == IF field = <<>> THEN 0 ELSE field[1]

\* Instants are counted in hours, DayLen of them to a day (the scale of the
\* clock `now'); a date field holds <<>> or <<day>>, a time field <<>> or
\* <<hour>>.
DayLen == 4
TwoHours == 2
\* new Date(`${date}T${time}:00`)
Instant(date, time) == date[1] * DayLen + time[1]
\* endLocal.toTimeString().slice(0,5)
TimeOfDay(instant) == instant % DayLen

\* createPot: start_at and end_at from #c-date, #c-time, #c-end-time
CreateStart(when) ==
  IF when.date # <<>> /\ when.time # <<>> THEN Instant(when.date, when.time) ELSE NoNum
CreateEnd(when) ==
  LET startLocal == CreateStart(when)
      endLocal == Instant(when.date, when.endTime)
  IN IF startLocal = NoNum THEN NoNum
     ELSE IF when.endTime # <<>>
          THEN IF endLocal < startLocal THEN startLocal + TwoHours ELSE endLocal
          ELSE startLocal + TwoHours

\* the form values with which InitPots[id] was created
CreatedWhen(id) ==
  [date |-> InitPots[id].date, time |-> InitPots[id].time,
   endTime |-> IF InitPots[id].end_at = NoNum THEN <<>>
               ELSE <<TimeOfDay(InitPots[id].end_at)>>]

\* createPot(): pots.add(pot) under a fresh id; the rest of the form is filled
\* as for InitPots[id]
createPot(id, pctField, when, dbFails) ==
  /\ id \in PotIds \ DOMAIN pots
  /\ pots' = IF dbFails THEN pots
             ELSE Put(pots, id, [InitPots[id] EXCEPT
                                   !.status = "open",
                                   !.date = when.date, !.time = when.time,
                                   !.start_at = CreateStart(when),
                                   !.end_at = CreateEnd(when),
                                   !.pot_share_pct = ClampPct(CreatePct(pctField))])
  /\ UNCHANGED <<now, entries, nextId, hookVars, joinVars, adminVars>>

\* prefillEditForm: #f-date, #f-time, #f-end-time as the edit form opens
Prefill(pot) ==
  [date |-> pot.date, time |-> pot.time,
   endTime |-> IF pot.end_at = NoNum THEN <<>> ELSE <<TimeOfDay(pot.end_at)>>]
\* what the admin does to a prefilled field: leaves it (Keep), clears it
\* (<<>>) or types a value (<<n>>)
Keep == <<NoNum>>
Untouched == [date |-> Keep, time |-> Keep, endTime |-> Keep]
FieldValue(edit, prefilled) == IF edit = Keep THEN prefilled ELSE edit
\* $('#f-date').value || CURRENT_DETAIL_POT.date, likewise the time
OrElse(field, stored) == IF field # <<>> THEN field ELSE stored

\* savePotEdits: end_at from date, time and #f-end-time; start_at is not
\* among the fields it updates
EditEnd(cur, date, time, endTime) ==
  IF date # <<>> /\ (time # <<>> \/ endTime # <<>>)
  THEN LET startLocal == IF time # <<>> THEN Instant(date, time) ELSE cur.start_at
           endLocal == Instant(date, endTime)
       IN IF endTime # <<>>
          THEN IF startLocal # NoNum /\ endLocal < startLocal
               THEN startLocal + TwoHours ELSE endLocal
          ELSE NoNum
  ELSE cur.end_at

\* #btn-save-pot: savePotEdits(); the form was prefilled from
\* CURRENT_DETAIL_POT; #f-pot-pct and #f-status were edited, and the date and
\* time fields as edit says; update() rejects when the pot document is gone;
\* on success onLoadPotClicked() runs
savePotEdits(pctField, status, edit, dbFails) ==
  /\ requireAdmin
  /\ load = <<>>
  /\ LET cur == CURRENT_DETAIL_POT[1]
         id == cur.id
         pm == getPaymentMethods(cur)
         pre == Prefill(cur)
         date == OrElse(FieldValue(edit.date, pre.date), cur.date)
         time == OrElse(FieldValue(edit.time, pre.time), cur.time)
         endTime == FieldValue(edit.endTime, pre.endTime)
     IN IF id \in DOMAIN pots /\ ~dbFails
        THEN /\ pots' = [pots EXCEPT ![id] =
                          [@ EXCEPT !.skill = cur.skill,
                                    !.buyin_member = cur.buyin_member,
                                    !.buyin_guest = cur.buyin_guest,
                                    !.status = status,
                                    !.date = date, !.time = time,
                                    !.end_at = EditEnd(cur, date, time, endTime),
                                    !.pot_share_pct = ClampPct(EditPct(pctField)),
                                    !.pay_zelle = cur.pay_zelle,
                                    !.pay_cashapp = cur.pay_cashapp,
                                    !.pay_onsite = pm.onsite,
                                    !.payment_methods =
                                       [stripe |-> pm.stripe, zelle |-> cur.pay_zelle # "",
                                        cashapp |-> cur.pay_cashapp # "", onsite |-> pm.onsite]]]
             /\ load' = <<id>>
        ELSE UNCHANGED <<pots, load>>
  /\ UNCHANGED <<now, entries, nextId, hookVars, joinVars, siteAdmin, CURRENT_DETAIL_POT,
                 LAST_DETAIL_ENTRIES, detailSub, detailSeen, rendered, move, alertBox>>

\* ---------- Move
\* no dialog is open; alert: what moveEntry reported when it returned
Closed(alert) == [pc |-> "closed", alert |-> alert]
ClosedMove == Closed("")
SamePot == "Already in this tournament."
NotFound == "Entry not found."
Duplicate == "Duplicate exists in the target tournament (same name or email)."
Moved == "Registration moved."
MoveFailed == "Failed to move registration."
CacheIds(cache) == {cache[i].id : i \in 1..Len(cache)}

\* the Move button of a row: openMoveDialog(entryId)
OpenMoveDialog(id) ==
  /\ id \in DOMAIN rendered
  /\ requireAdmin
  /\ move.pc = "closed"
  /\ move' = [pc |-> "dialog", entryId |-> id,
              options |-> CacheIds(JOIN_POTS_CACHE[Admin]) \ {CURRENT_DETAIL_POT[1].id}]
  /\ UNCHANGED <<dbVars, hookVars, joinVars, siteAdmin, CURRENT_DETAIL_POT,
                 LAST_DETAIL_ENTRIES, detailSub, detailSeen, rendered, load, alertBox>>

\* #move-cancel
MoveCancel ==
  /\ move.pc = "dialog"
  /\ move' = ClosedMove
  /\ UNCHANGED <<dbVars, hookVars, joinVars, siteAdmin, CURRENT_DETAIL_POT,
                 LAST_DETAIL_ENTRIES, detailSub, detailSeen, rendered, load, alertBox>>

\* #move-confirm: moveEntry(entryId, toPotId) up to its first await
MoveConfirm(toPotId) ==
  /\ move.pc = "dialog"
  /\ toPotId \in move.options
  /\ move' =
       IF CURRENT_DETAIL_POT = <<>> THEN Closed(MoveFailed)      \* TypeError, caught
       ELSE IF toPotId = CURRENT_DETAIL_POT[1].id THEN Closed(SamePot)
       ELSE IF move.entryId \notin DOMAIN LAST_DETAIL_ENTRIES THEN Closed(NotFound)
       ELSE LET entry == LAST_DETAIL_ENTRIES[move.entryId]
                emailLC == NormEmail(entry.email)
            IN [pc |-> IF emailLC # "" THEN "dupEmail" ELSE "dupName",
                entryId |-> move.entryId, toPotId |-> toPotId,
                fromPotId |-> CURRENT_DETAIL_POT[1].id, entry |-> entry,
                emailLC |-> emailLC, nameLC |-> LowerName(entry.name),
                dupEmail |-> FALSE]
  /\ UNCHANGED <<dbVars, hookVars, joinVars, siteAdmin, CURRENT_DETAIL_POT,
                 LAST_DETAIL_ENTRIES, detailSub, detailSeen, rendered, load, alertBox>>

\* the email query against the target pot is answered
MoveDupEmail ==
  /\ move.pc = "dupEmail"
  /\ move' = [move EXCEPT !.pc = "dupName",
                          !.dupEmail = HasEmail(move.toPotId, move.emailLC)]
  /\ UNCHANGED <<dbVars, hookVars, joinVars, siteAdmin, CURRENT_DETAIL_POT,
                 LAST_DETAIL_ENTRIES, detailSub, detailSeen, rendered, load, alertBox>>

\* the name query is answered; the duplicate decision follows
MoveDupNameMutant ==
  /\ move.pc = "dupName"
  /\ LET dupName == move.nameLC # <<>> /\ HasName(move.toPotId, move.nameLC)
     IN move' = IF dupName THEN Closed(Duplicate)
                ELSE [move EXCEPT !.pc = "add"]
  /\ UNCHANGED <<dbVars, hookVars, joinVars, siteAdmin, CURRENT_DETAIL_POT,
                 LAST_DETAIL_ENTRIES, detailSub, detailSeen, rendered, load, alertBox>>
MoveDupName ==
  /\ move.pc = "dupName"
  /\ LET dupName == move.nameLC # <<>> /\ HasName(move.toPotId, move.nameLC)
     IN move' = IF IsDuplicate(move.dupEmail, dupName) THEN Closed(Duplicate)
                ELSE [move EXCEPT !.pc = "add"]
  /\ UNCHANGED <<dbVars, hookVars, joinVars, siteAdmin, CURRENT_DETAIL_POT,
                 LAST_DETAIL_ENTRIES, detailSub, detailSeen, rendered, load, alertBox>>

\* toRef.add(data) commits
MoveAddMutant ==
  /\ move.pc = "add"
  /\ nextId <= MaxEntries
  /\ LET data == [move.entry EXCEPT !.created_at = now, !.paid = FALSE,
                                    !.moved_from = move.fromPotId, !.moved_at = now]
     IN entries' = [entries EXCEPT ![move.toPotId] =
                      Put(entries[move.toPotId], IdPool[nextId], data)]
  /\ nextId' = nextId + 1
  /\ move' = [move EXCEPT !.pc = "delete"]
  /\ UNCHANGED <<now, pots, hookVars, joinVars, siteAdmin, CURRENT_DETAIL_POT,
                 LAST_DETAIL_ENTRIES, detailSub, detailSeen, rendered, load, alertBox>>
MoveAdd ==
  /\ move.pc = "add"
  /\ nextId <= MaxEntries
  /\ LET data == [move.entry EXCEPT !.created_at = now,
                                    !.moved_from = move.fromPotId, !.moved_at = now]
     IN entries' = [entries EXCEPT ![move.toPotId] =
                      Put(entries[move.toPotId], IdPool[nextId], data)]
  /\ nextId' = nextId + 1
  /\ move' = [move EXCEPT !.pc = "delete"]
  /\ UNCHANGED <<now, pots, hookVars, joinVars, siteAdmin, CURRENT_DETAIL_POT,
                 LAST_DETAIL_ENTRIES, detailSub, detailSeen, rendered, load, alertBox>>

\* pots/{fromPotId}/entries/{entryId}.delete() commits
MoveDelete ==
  /\ move.pc = "delete"
  /\ entries' = [entries EXCEPT ![move.fromPotId] = Del(entries[move.fromPotId], move.entryId)]
  /\ move' = Closed(Moved)
  /\ UNCHANGED <<now, pots, nextId, hookVars, joinVars, siteAdmin, CURRENT_DETAIL_POT,
                 LAST_DETAIL_ENTRIES, detailSub, detailSeen, rendered, load, alertBox>>

\* an awaited datastore call of moveEntry rejects (or the page is closed):
\* catch(err) { alert('Failed to move registration.') }
MoveDbErrorMutant ==
  /\ move.pc \in {"dupEmail", "dupName", "add", "delete"}
  /\ move' = IF move.pc = "add" THEN [move EXCEPT !.pc = "delete"] ELSE Closed(MoveFailed)
  /\ UNCHANGED <<dbVars, hookVars, joinVars, siteAdmin, CURRENT_DETAIL_POT,
                 LAST_DETAIL_ENTRIES, detailSub, detailSeen, rendered, load, alertBox>>
MoveDbError ==
  /\ move.pc \in {"dupEmail", "dupName", "add", "delete"}
  /\ move' = Closed(MoveFailed)
  /\ UNCHANGED <<dbVars, hookVars, joinVars, siteAdmin, CURRENT_DETAIL_POT,
                 LAST_DETAIL_ENTRIES, detailSub, detailSeen, rendered, load, alertBox>>

\* ================================================================ Init
\* the state of freshly loaded pages over a datastore holding the pots P
\* P: the pots stored; E: the entries stored, in documents IdPool[1..n-1]
InitOf(P, E, n) ==
  /\ now = 1
  /\ pots = P
  /\ entries = E
  /\ nextId = n
  /\ sessions = <<>>
  /\ wh = [status |-> 0, failed |-> FALSE]
  /\ applied = {}
  /\ owner = [p \in PotIds |-> [owner_code_hash |-> Hash(InitialCode(p)),
                                 owner_token_salt |-> InitialSalt(p)]]
  /\ issued = [codes |-> {<<p, InitialCode(p)>> : p \in PotIds},
               salts |-> {<<p, InitialSalt(p)>> : p \in PotIds},
               verified |-> {}]
  /\ auth = Response("", "", FALSE, NoNum, NoNum)
  /\ JOIN_POTS_CACHE = [c \in Clients |-> <<>>]
  /\ potsSeen = [c \in Clients |-> <<>>]
  /\ jsel = [c \in Clients |-> ""]
  /\ CURRENT_JOIN_POT = [c \in Clients |-> <<>>]
  /\ JOIN_ENTRIES_UNSUB = [c \in Clients |-> <<>>]
  /\ totals = [c \in Clients |-> ZeroTotals]
  /\ join = [c \in Clients |-> IdleJoin]
  /\ msg = [c \in Clients |-> ""]
  /\ siteAdmin = FALSE
  /\ CURRENT_DETAIL_POT = <<>>
  /\ LAST_DETAIL_ENTRIES = EmptyMap
  /\ detailSub = <<>>
  /\ detailSeen = <<>>
  /\ rendered = EmptyMap
  /\ load = <<>>
  /\ move = ClosedMove
  /\ alertBox = ""
InitWith(P) == InitOf(P, [p \in PotIds |-> EmptyMap], 1)

Init == InitWith(InitPots)

\* ---------------------------------------------------------- input sets
FNames == {"", "Ann", "ANN", "Bob"}
LNames == {"", "Lee"}
Emails == {"", "a@x.com", "A@X.COM", "b@x.com"}
Skills == {"Any", "2.5 - 3.0", "3.25+", "Other"}
MemberTypes == {"Member", "Guest"}
PayTypes == {"", "Stripe", "Onsite"}
NetOutcomes == {"lost", "dropped", "ok"}

\* ================================================================ Next
JoinStep(c) ==
  \/ PotsSnapshot(c)
  \/ \E id \in PotIds : onJoinPotChange(c, id)
  \/ TotalsSnapshot(c)
  \/ \E fname \in FNames, lname \in LNames, email \in Emails, playerSkill \in Skills,
        member_type \in MemberTypes, pay_type \in PayTypes :
       JoinClick(c, fname, lname, email, playerSkill, member_type, pay_type)
  \/ JoinDupEmail(c)
  \/ JoinDupName(c)
  \/ JoinAdd(c)
  \/ JoinDbError(c)
  \/ \E net \in NetOutcomes, gatewayFails \in BOOLEAN : JoinFetch(c, net, gatewayFails)

AdminStep ==
  \/ AdminLogin
  \/ AdminLogout
  \/ \E id \in PotIds : LoadClick(id)
  \/ LoadDone
  \/ DetailSnapshot
  \/ \E id \in AutoIds, dbFails \in BOOLEAN : PaidToggle(id, dbFails)
  \/ \E id \in AutoIds, dbFails \in BOOLEAN : HoldToggle(id, dbFails)
  \/ \E id \in AutoIds, dbFails \in BOOLEAN : RemoveEntry(id, dbFails)
  \/ \E newStatus \in {"hold", "open"}, dbFails \in BOOLEAN : updatePotStatus(newStatus, dbFails)
  \/ \E dbFails \in BOOLEAN : deleteCurrentPot(dbFails)
  \/ \E id \in AutoIds : OpenMoveDialog(id)
  \/ MoveCancel
  \/ \E toPotId \in PotIds : MoveConfirm(toPotId)
  \/ MoveDupEmail
  \/ MoveDupName
  \/ MoveAdd
  \/ MoveDelete
  \/ MoveDbError
  \/ AdminDenied
  \/ \E dbFails \in BOOLEAN : grantThisDeviceAdmin(dbFails)
  \/ \E dbFails \in BOOLEAN : revokeThisDeviceAdmin(dbFails)
  \/ \E id \in PotIds, f \in PctFields, when \in Whens, dbFails \in BOOLEAN :
       createPot(id, f, when, dbFails)
  \/ \E f \in PctFields, st \in {"hold", "open"}, dbFails \in BOOLEAN :
       \E edit \in Edits : savePotEdits(f, st, edit, dbFails)

OwnerStep ==
  \/ \E p \in PotIds, key \in IssuedKeys : ownerAuth(p, key)
  \/ \E p \in PotIds, key \in IssuedKeys, code \in 1..MaxCred : rotateCode(p, key, code)
  \/ \E p \in PotIds, key \in IssuedKeys, salt \in 1..MaxCred : rotateLink(p, key, salt)
  \/ \E p \in PotIds, key \in IssuedKeys, code \in 1..MaxCred, salt \in 1..MaxCred :
       revokeAll(p, key, code, salt)

GatewayStep ==
  \/ \E p \in PotIds : DirectCheckout(p, {StrayId})
  \/ GatewayDelivers
  \/ ForgedCallback

Next ==
  \/ Tick
  \/ \E c \in Clients : JoinStep(c)
  \/ AdminStep
  \/ GatewayStep
  \/ OwnerStep

Spec == Init /\ [][Next]_vars

\* ----------------------------------------------------- reconciliation
\* One participant browser joins pot A by card, and checkout sessions are
\* also requested directly; the gateway, the webhook and the clock run freely.
Payer == "c2"
RcSnapshot == PotsSnapshot(Payer)
RcJoinClick == JoinClick(Payer, "Ann", "", "", "Any", "Member", "Stripe")
RcDirectCheckout == DirectCheckout("A", {})
RcJoinDupName == JoinDupName(Payer)
RcJoinAdd == JoinAdd(Payer)
RcJoinDbError == JoinDbError(Payer)
RcJoinFetch == \E net \in NetOutcomes, gatewayFails \in BOOLEAN : JoinFetch(Payer, net, gatewayFails)

NextReconcile ==
  \/ Tick
  \/ RcSnapshot
  \/ RcJoinClick
  \/ RcJoinDupName
  \/ RcJoinAdd
  \/ RcJoinDbError
  \/ RcJoinFetch
  \/ RcDirectCheckout
  \/ GatewayDelivers
  \/ ForgedCallback

SpecReconcile == Init /\ [][NextReconcile]_vars

\* ------------------------------------------------------------ webhook
\* Through one browser Ann joins pot A by card, paying through the session
\* joinPot requests, and Bob joins it to pay on site; the gateway delivers,
\* and anybody forges, callbacks.
HkJoinClick ==
  \/ JoinClick(Payer, "Ann", "", "", "Any", "Member", "Stripe")
  \/ JoinClick(Payer, "Bob", "", "", "Any", "Member", "Onsite")

NextHook ==
  \/ Tick
  \/ RcSnapshot
  \/ HkJoinClick
  \/ RcJoinDupName
  \/ RcJoinAdd
  \/ RcJoinDbError
  \/ RcJoinFetch
  \/ GatewayDelivers
  \/ ForgedCallback

SpecHook == Init /\ [][NextHook]_vars

\* ---------------------------------------------------------- admission
\* One browser admits participants one after the other, to pot A or B, with
\* names and emails that differ in case only, or differ.
Applicants == {<<"Ann", "a@x.com">>, <<"Bob", "A@X.COM">>, <<"ANN", "b@x.com">>,
               <<"Bob", "">>}
AdPotChange == \E id \in PotIds : onJoinPotChange(Payer, id)
AdJoinClick ==
  \E who \in Applicants : JoinClick(Payer, who[1], "", who[2], "Any", "Member", "Onsite")
AdJoinDupEmail == JoinDupEmail(Payer)

NextAdmit ==
  \/ RcSnapshot
  \/ AdPotChange
  \/ AdJoinClick
  \/ AdJoinDupEmail
  \/ RcJoinDupName
  \/ RcJoinAdd
  \/ RcJoinDbError

SpecAdmit == Init /\ [][NextAdmit]_vars

\* --------------------------------------------------------- concurrency
\* Two browsers admit the same person to pot A at the same time while the
\* administrator, in the first of them, moves registrations between the pots.
CcSnapshot == \E c \in Clients : PotsSnapshot(c)
CcJoinClick ==
  \E c \in Clients : JoinClick(c, "Ann", "", "a@x.com", "Any", "Member", "Onsite")
CcJoinDupEmail == \E c \in Clients : JoinDupEmail(c)
CcJoinDupName == \E c \in Clients : JoinDupName(c)
CcJoinAdd == \E c \in Clients : JoinAdd(c)
CcJoinDbError == \E c \in Clients : JoinDbError(c)
CcLoadClick == \E id \in PotIds : LoadClick(id)
CcOpenMoveDialog == \E id \in AutoIds : OpenMoveDialog(id)
CcMoveConfirm == \E toPotId \in PotIds : MoveConfirm(toPotId)

NextConcurrent ==
  \/ CcSnapshot
  \/ CcJoinClick
  \/ CcJoinDupEmail
  \/ CcJoinDupName
  \/ CcJoinAdd
  \/ CcJoinDbError
  \/ AdminLogin
  \/ CcLoadClick
  \/ LoadDone
  \/ DetailSnapshot
  \/ CcOpenMoveDialog
  \/ MoveCancel
  \/ CcMoveConfirm
  \/ MoveDupEmail
  \/ MoveDupName
  \/ MoveAdd
  \/ MoveDelete
  \/ MoveDbError

SpecConcurrent == Init /\ [][NextConcurrent]_vars

\* ====================================================== reconciliation
CompletedKinds == {"checkout.session.completed",
                   "checkout.session.async_payment_succeeded"}
SessionPot(s) == sessions[s].metadata.pot_id
SessionEntry(s) == sessions[s].metadata.entry_id
HasEntry(es, p, e) == p \in DOMAIN es /\ e \in DOMAIN es[p]

\* a document joinPot or moveEntry wrote (it has its creation instant)
IsRegistration(es, p, e) == HasEntry(es, p, e) /\ es[p][e].created_at # NoNum

\* C1: handling an authenticated completed-payment event a second time, after
\* its write was committed once, is a no-op on the datastore: the entry keeps
\* paid = TRUE and its paid_amount and paid_at are what they were.
C1_RedeliveryIsNoOp ==
  [][\A s \in 1..Len(sessions), kind \in CompletedKinds, writeFails \in BOOLEAN :
       (/\ <<s, kind>> \in applied
        /\ IsRegistration(entries, SessionPot(s), SessionEntry(s))
        /\ Delivery(s, kind, "both", FALSE, writeFails))
         => entries' = entries]_vars

\* C2: an authenticated completed-payment event for an entry that is already
\* marked paid leaves that entry's paid_amount unchanged.
C2_PaidAmountKept ==
  [][\A s \in 1..Len(sessions), kind \in CompletedKinds, writeFails \in BOOLEAN :
       (/\ IsRegistration(entries, SessionPot(s), SessionEntry(s))
        /\ entries[SessionPot(s)][SessionEntry(s)].paid
        /\ Delivery(s, kind, "both", FALSE, writeFails))
         => entries'[SessionPot(s)][SessionEntry(s)].paid_amount
              = entries[SessionPot(s)][SessionEntry(s)].paid_amount]_vars

\* C3: for two completed-payment events addressed to one entry the final
\* paid flag and settled amount do not depend on the delivery order, and a
\* duplicate of either delivered at any point does not change them.  Were
\* that so, the deliveries a, b, a would end as a, b do: a duplicate of an
\* event already applied would leave paid and paid_amount as they are.
C3_OrderIndependent ==
  [][\A s \in 1..Len(sessions), kind \in CompletedKinds, writeFails \in BOOLEAN :
       (/\ <<s, kind>> \in applied
        /\ IsRegistration(entries, SessionPot(s), SessionEntry(s))
        /\ Delivery(s, kind, "both", FALSE, writeFails))
         => /\ entries'[SessionPot(s)][SessionEntry(s)].paid
               = entries[SessionPot(s)][SessionEntry(s)].paid
            /\ entries'[SessionPot(s)][SessionEntry(s)].paid_amount
               = entries[SessionPot(s)][SessionEntry(s)].paid_amount]_vars

\* C4: a callback whose signature does not verify is answered 400 and
\* writes nothing: every entry and every pot is unchanged.
C4_InvalidSignatureRejected ==
  [][\A p \in PotIds, a \in ForgedAmounts, kind \in EventKinds :
     \A e \in DOMAIN entries[p] :
       Forgery(p, e, a, kind)
         => wh'.status = 400 /\ entries' = entries /\ pots' = pots]_vars

\* a forged completed-payment callback for an existing unpaid entry was refused
C4_Witness ==
  /\ wh.status = 400
  /\ \E p \in PotIds : \E e \in DOMAIN entries[p] : ~entries[p][e].paid

\* C5: once the signature is verified the response is 200 for every event;
\* when the paid-write throws, the datastore is unchanged (the entry stays
\* as it was), the failure is logged, and nothing but a later delivery by
\* the gateway marks an entry paid (the server does not retry the write).
C5_AlwaysAcknowledged ==
  [][/\ \A s \in 1..Len(sessions), kind \in EventKinds, keep \in MetaShapes,
           writeFails \in BOOLEAN :
          Delivery(s, kind, keep, FALSE, writeFails)
            => /\ wh'.status = 200
               /\ (writeFails /\ kind \in CompletedKinds /\ keep = "both")
                    => (entries' = entries /\ wh'.failed)
     /\ (\E p \in PotIds : \E e \in DOMAIN entries'[p] :
            entries'[p][e].paid /\ ~(HasEntry(entries, p, e) /\ entries[p][e].paid))
          => \E s \in 1..Len(sessions), kind \in CompletedKinds :
               Delivery(s, kind, "both", FALSE, FALSE)]_vars

\* the write for an existing unpaid entry failed and the response was 200
C5_Witness ==
  /\ wh.status = 200
  /\ wh.failed
  /\ \E s \in 1..Len(sessions) :
       /\ HasEntry(entries, SessionPot(s), SessionEntry(s))
       /\ ~entries[SessionPot(s)][SessionEntry(s)].paid

\* C6: an authenticated completed-payment event whose metadata lacks pot_id
\* or lacks entry_id is answered 200 and causes no datastore write.
C6_UncorrelatableIgnored ==
  [][\A s \in 1..Len(sessions), kind \in CompletedKinds,
        keep \in MetaShapes \ {"both"}, writeFails \in BOOLEAN :
       Delivery(s, kind, keep, FALSE, writeFails)
         => wh'.status = 200 /\ ~wh'.failed /\ entries' = entries /\ pots' = pots]_vars

\* an event was acknowledged while the entry its session names is still unpaid
C6_Witness ==
  /\ wh.status = 200
  /\ ~wh.failed
  /\ applied = {}
  /\ \E s \in 1..Len(sessions) :
       /\ HasEntry(entries, SessionPot(s), SessionEntry(s))
       /\ ~entries[SessionPot(s)][SessionEntry(s)].paid

\* C7: both completed-payment kinds make the same change for a session (its
\* entry gets paid = TRUE, paid_amount = amount_total and the current time as
\* paid_at, and no other document changes); an authenticated event of any
\* other kind writes nothing; both are answered 200.
C7_RecognizedKinds ==
  [][\A s \in 1..Len(sessions), kind \in EventKinds :
       Delivery(s, kind, "both", FALSE, FALSE)
         => /\ wh'.status = 200
            /\ IF kind \in CompletedKinds
               THEN /\ HasEntry(entries', SessionPot(s), SessionEntry(s))
                    /\ entries'[SessionPot(s)][SessionEntry(s)].paid
                    /\ entries'[SessionPot(s)][SessionEntry(s)].paid_amount
                         = sessions[s].amount_total
                    /\ entries'[SessionPot(s)][SessionEntry(s)].paid_at = now
                    /\ \A p \in PotIds : \A e \in DOMAIN entries[p] :
                         (p # SessionPot(s) \/ e # SessionEntry(s))
                           => (HasEntry(entries', p, e) /\ entries'[p][e] = entries[p][e])
               ELSE entries' = entries]_vars

\* an entry was marked paid by the asynchronous kind, with its session's amount
C7_Witness ==
  \E s \in 1..Len(sessions) :
    /\ <<s, "checkout.session.async_payment_succeeded">> \in applied
    /\ <<s, "checkout.session.completed">> \notin applied
    /\ HasEntry(entries, SessionPot(s), SessionEntry(s))
    /\ entries[SessionPot(s)][SessionEntry(s)].paid
    /\ entries[SessionPot(s)][SessionEntry(s)].paid_amount = sessions[s].amount_total

\* C8: every session carries pot and entry id both in client_reference_id
\* and in metadata, and a completed-payment event marks the entry paid when
\* either of the two channels still carries the ids.
C8_EitherChannelCorrelates ==
  [][/\ \A s \in 1..Len(sessions') :
          sessions'[s].client_reference_id
            = <<sessions'[s].metadata.pot_id, sessions'[s].metadata.entry_id>>
     /\ \A s \in 1..Len(sessions), kind \in CompletedKinds, keep \in {"both", "none"},
           dropRef \in BOOLEAN :
          (/\ keep = "both" \/ ~dropRef
           /\ Delivery(s, kind, keep, dropRef, FALSE))
            => /\ HasEntry(entries', SessionPot(s), SessionEntry(s))
               /\ entries'[SessionPot(s)][SessionEntry(s)].paid]_vars

\* an entry of the pot client c is being admitted to has the admission's
\* normalized email, or its normalized name
Matches(c) ==
  \E e \in DOMAIN entries[join[c].p.id] :
    LET x == entries[join[c].p.id][e]
    IN \/ ToLowerCase(join[c].email) # ""
          /\ ToLowerCase(x.email) = ToLowerCase(join[c].email)
       \/ LowerName(x.name) = LowerName(join[c].name)

\* C9: when a pot already holds an entry whose email lower-cases to the
\* email of a later admission to that pot, or whose name lower-cases to its
\* name, the admission writes no entry and its duplicate check ends it with
\* the duplicate-registration message, whatever the other field is.
C9_DuplicateRejected ==
  [][(join[Payer].pc # "idle" /\ Matches(Payer))
       => /\ entries' = entries
          /\ RcJoinDupName
               => (msg'[Payer] = "Duplicate registration" /\ join'[Payer] = IdleJoin)]_vars

\* an admission to a pot whose only entry is Ann with a@x.com was rejected
\* as a duplicate
C9_Witness ==
  /\ msg[Payer] = "Duplicate registration"
  /\ join[Payer] = IdleJoin
  /\ CURRENT_JOIN_POT[Payer] # <<>>
  /\ LET col == entries[CURRENT_JOIN_POT[Payer][1].id]
     IN /\ Cardinality(DOMAIN col) = 1
        /\ \A e \in DOMAIN col : col[e].name = <<"Ann">> /\ col[e].email = "a@x.com"

\* C10: in every reachable state no pot holds two entries with the same
\* non-empty normalized name, nor two with the same non-empty normalized
\* email, however admissions and relocations interleave.
C10_IdentityUnique ==
  \A p \in PotIds : \A e1, e2 \in DOMAIN entries[p] :
    e1 # e2 =>
      /\ entries[p][e1].name_lc # <<>> => entries[p][e1].name_lc # entries[p][e2].name_lc
      /\ entries[p][e1].email_lc # "" => entries[p][e1].email_lc # entries[p][e2].email_lc

\* -------------------------------------------------------- eligibility
\* Pots A and B were created with any of the listed skills; one browser
\* admits Ann, to pay on site, declaring any skill.
PotSkills == {"Any", "2.5 - 3.0", "3.25+"}
InitEligible ==
  \E sa \in PotSkills, sb \in PotSkills :
    InitWith([InitPots EXCEPT !["A"].skill = sa, !["B"].skill = sb])
ElClick(playerSkill) == JoinClick(Payer, "Ann", "", "", playerSkill, "Member", "Onsite")
ElJoinClick == \E playerSkill \in Skills : ElClick(playerSkill)

NextEligible ==
  \/ RcSnapshot
  \/ AdPotChange
  \/ ElJoinClick
  \/ RcJoinDupName
  \/ RcJoinAdd
  \/ RcJoinDbError

SpecEligible == InitEligible /\ [][NextEligible]_vars

\* the click was rejected for the declared skill, and nothing was written
SkillRejected ==
  /\ msg'[Payer] = "Selected skill is higher than pot skill"
  /\ join' = join
  /\ entries' = entries
\* the click passed the synchronous checks: the duplicate queries follow
ClickPassed == join'[Payer].pc \in {"dupEmail", "dupName"} /\ msg'[Payer] = ""

\* C11: at a pot whose skill is "2.5 - 3.0" an admission declaring "3.25+"
\* is rejected, and admissions declaring "Any" or "2.5 - 3.0" pass the
\* eligibility check.
C11_TierOnePot ==
  [][\A playerSkill \in PotSkills :
       (/\ CURRENT_JOIN_POT[Payer] # <<>>
        /\ CURRENT_JOIN_POT[Payer][1].skill = "2.5 - 3.0"
        /\ ElClick(playerSkill))
         => IF playerSkill = "3.25+" THEN SkillRejected ELSE ClickPassed]_vars

\* a "3.25+" admission to a "2.5 - 3.0" pot was rejected
C11_Witness ==
  /\ msg[Payer] = "Selected skill is higher than pot skill"
  /\ join[Payer] = IdleJoin
  /\ CURRENT_JOIN_POT[Payer] # <<>>
  /\ CURRENT_JOIN_POT[Payer][1].skill = "2.5 - 3.0"
  /\ entries[CURRENT_JOIN_POT[Payer][1].id] = EmptyMap

\* C12 as stated: for every pot skill and declared skill the admission
\* passes exactly when the declared tier is at most the pot's tier.
C12_TierAtMostPotTier ==
  [][\A playerSkill \in Skills :
       (CURRENT_JOIN_POT[Payer] # <<>> /\ ElClick(playerSkill))
         => IF rank(playerSkill) <= rank(CURRENT_JOIN_POT[Payer][1].skill)
            THEN ClickPassed ELSE SkillRejected]_vars

\* C12: for every pot skill and declared skill the admission passes exactly
\* when the pot's skill is "Any" or the declared tier is at most the pot's
\* tier; an admission that does not pass writes nothing.
C12_AnyPotOrTierAtMost ==
  [][\A playerSkill \in Skills :
       (CURRENT_JOIN_POT[Payer] # <<>> /\ ElClick(playerSkill))
         => IF \/ CURRENT_JOIN_POT[Payer][1].skill = "Any"
               \/ rank(playerSkill) <= rank(CURRENT_JOIN_POT[Payer][1].skill)
            THEN ClickPassed ELSE SkillRejected]_vars

\* an "Any" pot holds an entry that declared "3.25+"
C12_Witness ==
  \E p \in PotIds : \E e \in DOMAIN entries[p] :
    pots[p].skill = "Any" /\ entries[p][e].player_skill = "3.25+"

\* --------------------------------------------------- pot administration
\* One browser admits Ann, to pay on site, while the administrator in the
\* other browser loads a pot and holds, resumes or deletes it.
PaJoinClick == JoinClick(Payer, "Ann", "", "", "Any", "Member", "Onsite")
PaStatus == \E newStatus \in {"hold", "open"} : updatePotStatus(newStatus, FALSE)
PaDelete == deleteCurrentPot(FALSE)

NextPotAdmin ==
  \/ RcSnapshot
  \/ AdPotChange
  \/ PaJoinClick
  \/ RcJoinDupName
  \/ RcJoinAdd
  \/ RcJoinDbError
  \/ AdminLogin
  \/ CcLoadClick
  \/ LoadDone
  \/ PaStatus
  \/ PaDelete

SpecPotAdmin == Init /\ [][NextPotAdmin]_vars

\* C13: admission writes an entry only if, at the moment of the write, the
\* pot exists in the datastore, its status is open and its end instant has
\* not passed, also when an administrator holds or deletes the pot while
\* the join runs on a cached pot.
C13_WriteNeedsOpenPot ==
  [][RcJoinAdd
       => /\ join[Payer].p.id \in DOMAIN pots
          /\ pots[join[Payer].p.id].status = "open"
          /\ Unexpired({pots[join[Payer].p.id]}) # {}]_vars

\* ------------------------------------------------------------- joining
\* One browser admits Ann, by card as member or guest, and Bob, a guest who
\* pays on site, to pot A (card payments enabled, guest buy-in $0.30) or
\* pot B (card payments disabled).
JnApplicants == {<<"Ann", "Member", "Stripe">>, <<"Ann", "Guest", "Stripe">>,
                 <<"Bob", "Guest", "Onsite">>}
JnJoinClick ==
  \E who \in JnApplicants : JoinClick(Payer, who[1], "", "", "Any", who[2], who[3])

NextJoin ==
  \/ RcSnapshot
  \/ AdPotChange
  \/ JnJoinClick
  \/ RcJoinDupName
  \/ RcJoinAdd
  \/ RcJoinDbError
  \/ RcJoinFetch

SpecJoin == Init /\ [][NextJoin]_vars

\* One browser admits Ann and Bob to pot A by card, as member ($10.00) or
\* guest ($0.30); checkout sessions for $0.30 and $20.00 are also requested
\* directly.
MnJoinClick ==
  \E fname \in {"Ann", "Bob"}, member_type \in MemberTypes :
    JoinClick(Payer, fname, "", "", "Any", member_type, "Stripe")

NextMinimum ==
  \/ RcSnapshot
  \/ MnJoinClick
  \/ RcJoinDupName
  \/ RcJoinAdd
  \/ RcJoinDbError
  \/ RcJoinFetch
  \/ RcDirectCheckout

SpecMinimum == Init /\ [][NextMinimum]_vars

\* the pot's capability set has the method: the option updatePaymentOptions offers
Allowed(p, pay_type) ==
  CASE pay_type = "Stripe" -> p.payment_methods.stripe
    [] pay_type = "Zelle" -> p.payment_methods.zelle \/ p.pay_zelle # ""
    [] pay_type = "CashApp" -> p.payment_methods.cashapp \/ p.pay_cashapp # ""
    [] pay_type = "Onsite" -> p.payment_methods.onsite \/ p.pay_onsite
    [] OTHER -> FALSE

\* C14: an admission whose chosen payment method the pot does not allow is
\* rejected, and no entry is written for it.
C14_MethodMustBeAllowed ==
  [][(/\ join[Payer].pc # "idle"
      /\ ~Allowed(pots[join[Payer].p.id], join[Payer].pay_type))
       => entries' = entries]_vars

\* C15: the write of an admission adds exactly one new entry to the pot,
\* with paid = FALSE, status "active" and applied_buyin the pot's member
\* buy-in for a Member and its guest buy-in otherwise; no other entry and
\* no pot document changes.
C15_OneEntryWritten ==
  [][RcJoinAdd =>
       LET j == join[Payer]
           col == entries[j.p.id]
       IN /\ pots' = pots
          /\ \A q \in PotIds \ {j.p.id} : entries'[q] = entries[q]
          /\ \A e \in DOMAIN col : e \in DOMAIN entries'[j.p.id] /\ entries'[j.p.id][e] = col[e]
          /\ Cardinality(DOMAIN entries'[j.p.id]) = Cardinality(DOMAIN col) + 1
          /\ \A e \in DOMAIN entries'[j.p.id] \ DOMAIN col :
               /\ ~entries'[j.p.id][e].paid
               /\ entries'[j.p.id][e].status = "active"
               /\ entries'[j.p.id][e].applied_buyin
                    = IF j.member_type = "Member" THEN pots[j.p.id].buyin_member
                      ELSE pots[j.p.id].buyin_guest]_vars

\* pot A holds a guest's entry with the guest buy-in, unpaid and active
C15_Witness ==
  \E e \in DOMAIN entries["A"] :
    /\ entries["A"][e].member_type = "Guest"
    /\ entries["A"][e].applied_buyin = pots["A"].buyin_guest
    /\ pots["A"].buyin_guest # pots["A"].buyin_member
    /\ ~entries["A"][e].paid
    /\ entries["A"][e].status = "active"

\* C16: joinPot goes on to request a checkout session only when the chosen
\* method is Stripe and the pot has stripe enabled; for any other method,
\* or with stripe disabled, it ends without a request and no session is made.
C16_GatewayGated ==
  [][/\ RcJoinAdd =>
          IF join[Payer].pay_type = "Stripe" /\ pots[join[Payer].p.id].payment_methods.stripe
          THEN TRUE
          ELSE join'[Payer] = IdleJoin /\ sessions' = sessions
     /\ \A net \in NetOutcomes, gatewayFails \in BOOLEAN :
          JoinFetch(Payer, net, gatewayFails)
            => /\ join[Payer].pay_type = "Stripe"
               /\ pots[join[Payer].p.id].payment_methods.stripe]_vars

\* a session was made for a card entry while an on-site entry and an entry
\* of the pot without card payments have none
C16_Witness ==
  /\ Len(sessions) = 1
  /\ \E e \in DOMAIN entries["A"] :
       entries["A"][e].pay_type = "Onsite" /\ sessions[1].metadata.entry_id # e
  /\ \E e \in DOMAIN entries["B"] : entries["B"][e].pay_type = "Stripe"

\* C17: a checkout of fewer than 50 minor units is rejected as too small
\* before any session is created: joinPot ends with the minimum-fee message
\* and sends no request, and the payment server answers such a request with
\* the error and leaves the gateway alone.
C17_MinimumAmount ==
  [][/\ (/\ RcJoinAdd
          /\ join[Payer].pay_type = "Stripe"
          /\ pots[join[Payer].p.id].payment_methods.stripe
          /\ AmountCents(join[Payer].applied_buyin) < MinCents)
           => /\ msg'[Payer] = "Stripe requires a fee of at least $0.50."
              /\ join'[Payer] = IdleJoin
              /\ sessions' = sessions
     /\ \A a \in DirectAmounts, gatewayFails \in BOOLEAN : \A e \in DOMAIN entries["A"] :
          a < MinCents
            => /\ CheckoutOutcome(a, gatewayFails) = "too_small"
               /\ create_checkout_session("A", e, a, gatewayFails) = sessions
     /\ \A s \in 1..Len(sessions') : sessions'[s].amount_total >= MinCents]_vars

\* a guest's card admission to pot A ($0.30) ended with the minimum-fee
\* message, and no session exists
C17_Witness ==
  /\ msg[Payer] = "Stripe requires a fee of at least $0.50."
  /\ join[Payer] = IdleJoin
  /\ sessions = <<>>
  /\ \E e \in DOMAIN entries["A"] :
       /\ entries["A"][e].pay_type = "Stripe"
       /\ AmountCents(entries["A"][e].applied_buyin) = 30

\* ------------------------------------------------------ pending entries
\* One browser admits Ann to pot A by card; the gateway delivers the events
\* of her session and anybody forges callbacks; the clock runs; the
\* administrator in the other browser loads pot A and toggles Paid or holds
\* registrations.
PdLoadClick == LoadClick("A")
PdPaidToggle == \E id \in AutoIds : PaidToggle(id, FALSE)
PdHoldToggle == \E id \in AutoIds : HoldToggle(id, FALSE)
PdDelivers ==
  \E s \in 1..Len(sessions), kind \in EventKinds : Delivery(s, kind, "both", FALSE, FALSE)

NextPending ==
  \/ Tick
  \/ RcSnapshot
  \/ RcJoinClick
  \/ RcJoinDupName
  \/ RcJoinAdd
  \/ RcJoinDbError
  \/ RcJoinFetch
  \/ PdDelivers
  \/ ForgedCallback
  \/ AdminLogin
  \/ PdLoadClick
  \/ LoadDone
  \/ DetailSnapshot
  \/ PdPaidToggle
  \/ PdHoldToggle

SpecPending == Init /\ [][NextPending]_vars

\* an entry as admission wrote it: unpaid and active
Pending(x) == ~x.paid /\ x.status = "active"

\* C18: payment orchestration (a checkout session created or refused, a
\* request or response lost, a redirect made) and the passing of time leave
\* every entry as it is; an entry that is unpaid and active stops being so,
\* or goes, only in a step that is the handling of an authenticated
\* completed-payment event or an action of the administrator.
C18_PendingPersists ==
  [][/\ \A net \in NetOutcomes, gatewayFails \in BOOLEAN :
          JoinFetch(Payer, net, gatewayFails) => entries' = entries
     /\ Tick => entries' = entries
     /\ (\E p \in PotIds : \E e \in DOMAIN entries[p] :
            /\ Pending(entries[p][e])
            /\ e \notin DOMAIN entries'[p] \/ ~Pending(entries'[p][e]))
          => \/ \E s \in 1..Len(sessions), kind \in CompletedKinds :
                  Delivery(s, kind, "both", FALSE, FALSE)
             \/ PdPaidToggle
             \/ PdHoldToggle]_vars

\* a session exists for an entry that is still unpaid and active after the
\* clock has advanced, and the join that made it is over
C18_Witness ==
  /\ now > 1
  /\ join[Payer] = IdleJoin
  /\ \E s \in 1..Len(sessions) :
       /\ HasEntry(entries, SessionPot(s), SessionEntry(s))
       /\ Pending(entries[SessionPot(s)][SessionEntry(s)])
       /\ entries[SessionPot(s)][SessionEntry(s)].created_at < now

\* --------------------------------------------------------------- totals
\* The administrator's browser shows the totals of pot A, the pot selected
\* on its join page, admits two members and a guest on site, and its Pot
\* Detail pane toggles Paid on the first registration and holds the second.
\* Pot A charges guests nothing and shares nothing.
TtPots == [InitPots EXCEPT !["A"].buyin_guest = 0, !["A"].pot_share_pct = 0]
InitTotals == InitWith(TtPots)

TtApplicants == {<<"Ann", "", "Member">>, <<"Ann", "Lee", "Member">>, <<"Bob", "", "Guest">>}
TtSnapshot == PotsSnapshot(Admin)
TtTotals == TotalsSnapshot(Admin)
TtJoinClick ==
  \E who \in TtApplicants : JoinClick(Admin, who[1], who[2], "", "Any", who[3], "Onsite")
TtJoinDupName == JoinDupName(Admin)
TtJoinAdd == JoinAdd(Admin)
TtPaidToggle == PaidToggle(IdPool[1], FALSE)
TtHoldToggle == HoldToggle(IdPool[2], FALSE)

NextTotals ==
  \/ TtSnapshot
  \/ TtTotals
  \/ TtJoinClick
  \/ TtJoinDupName
  \/ TtJoinAdd
  \/ AdminLogin
  \/ PdLoadClick
  \/ LoadDone
  \/ DetailSnapshot
  \/ TtPaidToggle
  \/ TtHoldToggle

SpecTotals == InitTotals /\ [][NextTotals]_vars

\* The same browser admits Ann as a member to pot A, loads either pot into
\* its Pot Detail pane, toggles Paid and puts the loaded pot on hold while
\* the clock runs.
ShJoinClick == JoinClick(Admin, "Ann", "", "", "Any", "Member", "Onsite")
ShLoadClick == \E id \in PotIds : LoadClick(id)
ShHoldPot == updatePotStatus("hold", FALSE)

NextShare ==
  \/ Tick
  \/ TtSnapshot
  \/ TtTotals
  \/ ShJoinClick
  \/ TtJoinDupName
  \/ TtJoinAdd
  \/ AdminLogin
  \/ ShLoadClick
  \/ LoadDone
  \/ DetailSnapshot
  \/ TtPaidToggle
  \/ ShHoldPot

SpecShare == InitTotals /\ [][NextShare]_vars

\* the sum of applied_buyin over the entries ids of the snapshot snap
RECURSIVE SumBuyin(_, _)
SumBuyin(snap, ids) ==
  IF ids = {} THEN 0
  ELSE LET id == CHOOSE x \in ids : TRUE
       IN snap[id].applied_buyin + SumBuyin(snap, ids \ {id})

\* the entries of a snapshot that count: active (status absent or 'active')
\* with a positive amount; and those of them that are paid
Counted(snap) ==
  {id \in DOMAIN snap : /\ snap[id].status \in {"", "active"}
                        /\ snap[id].applied_buyin # NoNum
                        /\ snap[id].applied_buyin > 0}
CountedPaid(snap) == {id \in Counted(snap) : snap[id].paid}

\* C19: for every snapshot of a pot's entry set delivered to the totals
\* listener, totalAll is the sum of applied_buyin over the active entries
\* with a positive amount (held entries are left out), totalPaid is that sum
\* over the paid ones among them, and countAll and countPaid are the numbers
\* of entries in the two sums.
C19_LedgerTotals ==
  [][\A c \in Clients :
       TotalsSnapshot(c)
         => LET snap == entries[JOIN_ENTRIES_UNSUB[c][1].pot]
            IN /\ totals'[c].totalAll = SumBuyin(snap, Counted(snap))
               /\ totals'[c].totalPaid = SumBuyin(snap, CountedPaid(snap))
               /\ totals'[c].countAll = Cardinality(Counted(snap))
               /\ totals'[c].countPaid = Cardinality(CountedPaid(snap))]_vars

\* the listener has delivered the present entries of pot A: a held member,
\* a guest who owes nothing and a paid member
C19_Witness ==
  /\ JOIN_ENTRIES_UNSUB[Admin] = <<[pot |-> "A", seen |-> <<entries["A"]>>]>>
  /\ \E id \in DOMAIN entries["A"] :
       entries["A"][id].status = "hold" /\ entries["A"][id].applied_buyin > 0
  /\ \E id \in DOMAIN entries["A"] :
       entries["A"][id].status = "active" /\ entries["A"][id].applied_buyin = 0
  /\ totals[Admin].countAll = 1
  /\ totals[Admin].countPaid = 1
  /\ totals[Admin].totalAll = 10000
  /\ totals[Admin].totalPaid = 10000

\* C20: the paid share and the total share shown after a snapshot are
\* totalPaid x pct/100 and totalAll x pct/100 for the share percentage pct of
\* the watched pot's document; so totals of 100.00 and 60.00 at 50 percent
\* show 50.00 and 30.00, and at 0 percent both shares show 0.00.  The
\* formula reads the percentage from the datastore, not from getPotSharePct.
C20_ShareOfPot ==
  [][\A c \in Clients :
       (TotalsSnapshot(c) /\ JOIN_ENTRIES_UNSUB[c][1].pot \in DOMAIN pots)
         => LET pct == pots[JOIN_ENTRIES_UNSUB[c][1].pot].pot_share_pct
            IN /\ totals'[c].paidShare = (totals'[c].totalPaid * pct + 500) \div 1000
               /\ totals'[c].totalShare = (totals'[c].totalAll * pct + 500) \div 1000
               /\ pct = 0 => totals'[c].paidShare = 0 /\ totals'[c].totalShare = 0
               /\ (totals'[c].totalAll = 100000 /\ totals'[c].totalPaid = 60000 /\ pct = 50)
                    => totals'[c].paidShare = 3000 /\ totals'[c].totalShare = 5000]_vars

\* ------------------------------------------------------ share percentage
\* Pot A exists; the administrator's browser creates pot B, loads either pot,
\* saves edits of the percentage and the status, and shows the totals of the
\* pot selected on its join page.
PcPots == [id \in {"A"} |-> InitPots[id]]
InitPct == InitWith(PcPots)
PcCreate == \E f \in PctFields : createPot("B", f, CreatedWhen("B"), FALSE)
PcSave == \E f \in PctFields, st \in {"open", "hold"} : savePotEdits(f, st, Untouched, FALSE)

NextPct ==
  \/ PcCreate
  \/ PcSave
  \/ AdminLogin
  \/ ShLoadClick
  \/ LoadDone
  \/ TtSnapshot
  \/ TtTotals

SpecPct == InitPct /\ [][NextPct]_vars

\* the percentage a field's text asks for, clamped to 0..100
Clamped(x) == IF x < 0 THEN 0 ELSE IF x > 100 THEN 100 ELSE x

\* C21: after any creations and edits every stored pot_share_pct lies in
\* 0..100, a typed percentage being stored clamped (below 0 as 0, above 100
\* as 100); creation with no percentage stores 100; and the percentage the
\* totals listener applies is the watched pot's stored value (always a
\* number here), hence in 0..100.  The last part is asked only of a browser
\* whose open-pots listener has delivered the present query result and whose
\* Pot Detail pane, if loaded, holds the present document of its pot.
C21_ShareClampedDefaulted ==
  [][/\ \A id \in DOMAIN pots' : pots'[id].pot_share_pct \in 0..100
     /\ \A f \in PctFields :
          createPot("B", f, CreatedWhen("B"), FALSE)
            => pots'["B"].pot_share_pct = IF f = <<>> THEN 100 ELSE Clamped(f[1])
     /\ \A f \in PctFields \ {<<>>}, st \in {"open", "hold"} :
          (savePotEdits(f, st, Untouched, FALSE) /\ CURRENT_DETAIL_POT[1].id \in DOMAIN pots)
            => pots'[CURRENT_DETAIL_POT[1].id].pot_share_pct = Clamped(f[1])
     /\ \A c \in Clients :
          (/\ TotalsSnapshot(c)
           /\ potsSeen[c] = <<OpenPotsQuery>>
           /\ load = <<>>
           /\ CURRENT_DETAIL_POT # <<>> => CURRENT_DETAIL_POT[1] \in {pots[id] : id \in DOMAIN pots}
           /\ JOIN_ENTRIES_UNSUB[c][1].pot \in DOMAIN pots)
            => /\ getPotSharePct(c, JOIN_ENTRIES_UNSUB[c][1].pot)
                    = pots[JOIN_ENTRIES_UNSUB[c][1].pot].pot_share_pct
               /\ getPotSharePct(c, JOIN_ENTRIES_UNSUB[c][1].pot) \in 0..100]_vars

\* --------------------------------------------------------------- ledger
\* The administrator's browser shows the totals of pot A, admits Ann to it,
\* and its Pot Detail pane, loaded with either pot, toggles Paid on the
\* first registration and holds it, relocates the first two registrations
\* and removes the third.
LgPaidToggle == PaidToggle(IdPool[1], FALSE)
LgHoldToggle == HoldToggle(IdPool[1], FALSE)
LgRemoveEntry == RemoveEntry(IdPool[3], FALSE)
LgOpenMoveDialog == \E id \in {IdPool[1], IdPool[2]} : OpenMoveDialog(id)
LgMoveConfirm == \E toPotId \in PotIds : MoveConfirm(toPotId)

NextLedger ==
  \/ TtSnapshot
  \/ TtTotals
  \/ ShJoinClick
  \/ TtJoinDupName
  \/ TtJoinAdd
  \/ AdminLogin
  \/ ShLoadClick
  \/ LoadDone
  \/ DetailSnapshot
  \/ LgPaidToggle
  \/ LgHoldToggle
  \/ LgRemoveEntry
  \/ LgOpenMoveDialog
  \/ LgMoveConfirm
  \/ MoveDupName
  \/ MoveAdd
  \/ MoveDelete

SpecLedger == Init /\ [][NextLedger]_vars

\* the four figures of a totals display
Figures(t) == <<t.totalAll, t.totalPaid, t.countAll, t.countPaid>>

\* C22: the totals listener keeps no running totals: whenever the listener
\* of a browser has been delivered the present entry set of the watched pot
\* (no change notification is pending), the displayed totals are the sums and
\* counts over the entries now in the datastore, whatever inserts, paid
\* flips, holds, removals and relocations in or out came before.
C22_LedgerNeverDrifts ==
  \A c \in Clients :
    (JOIN_ENTRIES_UNSUB[c] # <<>>
       /\ JOIN_ENTRIES_UNSUB[c][1].seen = <<entries[JOIN_ENTRIES_UNSUB[c][1].pot]>>)
      => LET snap == entries[JOIN_ENTRIES_UNSUB[c][1].pot]
         IN Figures(totals[c]) =
              <<SumBuyin(snap, Counted(snap)), SumBuyin(snap, CountedPaid(snap)),
                Cardinality(Counted(snap)), Cardinality(CountedPaid(snap))>>

\* the listener has been delivered pot A's present entries, which hold a
\* paid registration that came back from pot B, after an earlier display of
\* other totals
C22_Witness ==
  /\ JOIN_ENTRIES_UNSUB[Admin] # <<>>
  /\ JOIN_ENTRIES_UNSUB[Admin][1] = [pot |-> "A", seen |-> <<entries["A"]>>]
  /\ \E id \in DOMAIN entries["A"] :
       entries["A"][id].moved_from = "B" /\ entries["A"][id].paid
  /\ totals[Admin].countPaid = 1

\* ---------- Owner credentials: rotation scope, revoke-all
CodeKeys == {<<"code", c>> : c \in 1..MaxCred}
LinkKeys == {<<"link", LinkToken(p, salt)>> : p \in PotIds, salt \in 1..MaxCred}

OwAuth == \E p \in PotIds, key \in IssuedKeys : ownerAuth(p, key)
OwRotateCode ==
  \E p \in PotIds, key \in IssuedKeys, code \in 1..MaxCred : rotateCode(p, key, code)
OwRotateLink ==
  \E p \in PotIds, key \in IssuedKeys, salt \in 1..MaxCred : rotateLink(p, key, salt)
OwRevokeAll ==
  \E p \in PotIds, key \in IssuedKeys, code \in 1..MaxCred, salt \in 1..MaxCred :
    revokeAll(p, key, code, salt)
NextOwner == OwAuth \/ OwRotateCode \/ OwRotateLink \/ OwRevokeAll
SpecOwner == Init /\ [][NextOwner]_vars

\* a step that an owner endpoint answered with success
Answered(op) == auth'.op = op /\ auth'.ok /\ owner' # owner

\* C23: after rotateCode on a pot the code that was valid before fails verify,
\* the returned code passes, the salt is as it was and every magic link that
\* passed verify before the rotation still passes.
C23_RotateCodeScope ==
  [][\A p \in PotIds : Answered("rotate-code") /\ auth'.pot = p =>
       /\ \A k \in CodeKeys : verify(p, k) => ~verify(p, k)'
       /\ \A c \in 1..MaxCred : auth'.new_code = c => verify(p, <<"code", c>>)'
       /\ owner'[p].owner_token_salt = owner[p].owner_token_salt
       /\ \A k \in LinkKeys : verify(p, k) => verify(p, k)']_vars
C23_Witness ==
  /\ auth.op = "rotate-code" /\ auth.ok
  /\ owner[auth.pot].owner_code_hash = Hash(auth.new_code)
  /\ verify(auth.pot, <<"link", LinkToken(auth.pot, InitialSalt(auth.pot))>>)
  /\ ~verify(auth.pot, <<"code", InitialCode(auth.pot)>>)

\* C24: after rotateLink on a pot every magic link built on the old salt fails
\* verify, the returned link passes, the code hash is as it was and the owner
\* code that passed verify before the rotation still passes.
C24_RotateLinkScope ==
  [][\A p \in PotIds : Answered("rotate-link") /\ auth'.pot = p =>
       /\ \A k \in LinkKeys : verify(p, k) => ~verify(p, k)'
       /\ \A t \in 1..MaxCred : auth'.new_salt = t => verify(p, <<"link", LinkToken(p, t)>>)'
       /\ owner'[p].owner_code_hash = owner[p].owner_code_hash
       /\ \A k \in CodeKeys : verify(p, k) => verify(p, k)']_vars
C24_Witness ==
  /\ auth.op = "rotate-link" /\ auth.ok
  /\ owner[auth.pot].owner_token_salt = auth.new_salt
  /\ verify(auth.pot, <<"code", InitialCode(auth.pot)>>)
  /\ ~verify(auth.pot, <<"link", LinkToken(auth.pot, InitialSalt(auth.pot))>>)

\* C25: revokeAll replaces the code hash and the salt of the pot in one step
\* (a step that replaces exactly one of the two is a rotation, never a
\* revoke-all); after it every code and every link issued before fails verify
\* and the returned code and link pass.
C25_RevokeAllAtomic ==
  [][/\ \A p \in PotIds :
          (owner'[p].owner_code_hash # owner[p].owner_code_hash)
            # (owner'[p].owner_token_salt # owner[p].owner_token_salt)
          => auth'.op \in {"rotate-code", "rotate-link"}
     /\ \A p \in PotIds : Answered("revoke-all") /\ auth'.pot = p =>
          /\ owner'[p].owner_code_hash # owner[p].owner_code_hash
          /\ owner'[p].owner_token_salt # owner[p].owner_token_salt
          /\ \A k \in IssuedKeys : ~verify(p, k)'
          /\ \A c \in 1..MaxCred : auth'.new_code = c => verify(p, <<"code", c>>)'
          /\ \A t \in 1..MaxCred : auth'.new_salt = t => verify(p, <<"link", LinkToken(p, t)>>)']_vars
C25_Witness ==
  /\ auth.op = "revoke-all" /\ auth.ok
  /\ owner[auth.pot] = [owner_code_hash |-> Hash(auth.new_code),
                        owner_token_salt |-> auth.new_salt]
  /\ \A k \in IssuedKeys \ {<<"code", auth.new_code>>,
                            <<"link", LinkToken(auth.pot, auth.new_salt)>>} :
       ~verify(auth.pot, k)
  /\ \E k \in issued.codes : k[2] \notin {InitialCode(k[1]), auth.new_code}


\* ---------- Admin mutations behind requireAdmin
\* Ann's registration as joinPot wrote it at time 1
AnnEntry ==
  [BlankEntry EXCEPT
     !.name = <<"Ann">>, !.name_lc = <<"ann">>, !.email = "a@x.com",
     !.email_lc = "a@x.com", !.member_type = "Member", !.player_skill = "Any",
     !.pay_type = "Onsite", !.applied_buyin = 10000, !.status = "active",
     !.created_at = 1]
GtEntries == [p \in PotIds |-> IF p = "A" THEN Put(EmptyMap, IdPool[1], AnnEntry) ELSE EmptyMap]
InitGate == InitOf(InitPots, GtEntries, 2)

\* the move dialog, while open, covers the page: the buttons under it are
\* clicked only while it is closed
GtLoadClick == LoadClick("A")
GtPaidToggle == move.pc = "closed" /\ PaidToggle(IdPool[1], FALSE)
GtHoldToggle == move.pc = "closed" /\ HoldToggle(IdPool[1], FALSE)
GtRemoveEntry == move.pc = "closed" /\ RemoveEntry(IdPool[1], FALSE)
GtStatus == move.pc = "closed" /\ updatePotStatus("hold", FALSE)
GtSave == move.pc = "closed" /\ savePotEdits(<<100>>, "hold", Untouched, FALSE)
GtDelete == move.pc = "closed" /\ deleteCurrentPot(FALSE)
GtGrant == move.pc = "closed" /\ grantThisDeviceAdmin(FALSE)
GtRevoke == move.pc = "closed" /\ revokeThisDeviceAdmin(FALSE)
GtOpenMoveDialog == OpenMoveDialog(IdPool[1])
GtMoveConfirm == MoveConfirm("B")

NextGate ==
  \/ TtSnapshot
  \/ AdminLogin
  \/ AdminLogout
  \/ AdminDenied
  \/ GtLoadClick
  \/ LoadDone
  \/ DetailSnapshot
  \/ GtPaidToggle
  \/ GtHoldToggle
  \/ GtRemoveEntry
  \/ GtStatus
  \/ GtSave
  \/ GtDelete
  \/ GtGrant
  \/ GtRevoke
  \/ GtOpenMoveDialog
  \/ GtMoveConfirm
  \/ MoveDupEmail
  \/ MoveDupName
  \/ MoveAdd
  \/ MoveDelete
SpecGate == InitGate /\ [][NextGate]_vars

\* a write to a pot or to its entries
AdminWrite == pots' # pots \/ entries' # entries

\* C26: a pot edit, status change, pot delete, co-admin grant or revoke,
\* paid override, hold or resume, removal or relocation writes only after the
\* site-admin check succeeded (for a relocation: when its dialog was opened);
\* a handler whose check fails shows the authorization alert and writes
\* nothing.
C26_AdminGated ==
  [][/\ AdminWrite => siteAdmin \/ move.pc \in {"add", "delete"}
     /\ move.pc = "closed" /\ move'.pc # "closed" => siteAdmin
     /\ move'.pc \in {"add", "delete"} => move.pc # "closed"
     /\ ~siteAdmin /\ move.pc = "closed" => ~AdminWrite
     /\ AdminDenied => /\ ~siteAdmin => alertBox' = AdminOnly
                       /\ alertBox' # ""
                       /\ UNCHANGED <<pots, entries>>]_vars
C26_Witness ==
  /\ ~siteAdmin
  /\ alertBox = AdminOnly
  /\ "A" \in DOMAIN pots
  /\ pots["A"].adminUids = {DeviceUid}
  /\ pots["A"].status = "hold"
  /\ \E e \in DOMAIN entries["B"] : entries["B"][e].moved_from = "A"

\* ---------- Authorization per pot
AzLoadClick == \E id \in PotIds : LoadClick(id)
NextAuthz ==
  \/ OwAuth
  \/ TtSnapshot
  \/ AdminLogin
  \/ AzLoadClick
  \/ LoadDone
  \/ DetailSnapshot
  \/ GtStatus
  \/ GtOpenMoveDialog
  \/ LgMoveConfirm
  \/ MoveDupEmail
  \/ MoveDupName
  \/ MoveAdd
  \/ MoveDelete
SpecAuthz == InitGate /\ [][NextAuthz]_vars

\* an admin mutation of pot p, or of an entry of p other than the arrival of
\* a relocated entry
MutatesPot(p) ==
  \/ p \in DOMAIN pots /\ (p \notin DOMAIN pots' \/ pots'[p] # pots[p])
  \/ entries'[p] # entries[p] /\ ~(move.pc = "add" /\ move.toPotId = p)

\* C27: an admin mutation of pot P, or a relocation out of P, happens only
\* after a code or link was verified against P's own credential.
C27_PerPotAuthorization ==
  [][\A p \in PotIds : MutatesPot(p) => p \in issued.verified]_vars

\* ---------- Relocation with nothing else writing
\* Pot A holds Ann's registration; pot B holds one registration that does
\* not conflict with it (Bob), or has Ann's name, or has Ann's email.
BobEntry ==
  [AnnEntry EXCEPT !.name = <<"Bob">>, !.name_lc = <<"bob">>, !.email = "b@x.com",
                   !.email_lc = "b@x.com", !.member_type = "Guest",
                   !.applied_buyin = 5000]
MvOthers ==
  {BobEntry,
   [BobEntry EXCEPT !.name = <<"ANN">>, !.name_lc = <<"ann">>],
   [BobEntry EXCEPT !.email = "A@x.com", !.email_lc = "a@x.com"]}
MvEntries(other) ==
  [p \in PotIds |-> IF p = "A" THEN Put(EmptyMap, IdPool[1], AnnEntry)
                    ELSE Put(EmptyMap, IdPool[2], other)]
InitMove == \E other \in MvOthers : InitOf(InitPots, MvEntries(other), 3)

\* moveEntry is not yet past its first await
MvIdle == move.pc \in {"closed", "dialog"}
\* the registrations listener has delivered what the loaded pot now holds
MvCurrent ==
  /\ CURRENT_DETAIL_POT # <<>>
  /\ load = <<>>
  /\ detailSub = <<CURRENT_DETAIL_POT[1].id>>
  /\ detailSeen = <<DetailQuery(detailSub[1])>>
MvSnapshot == MvIdle /\ PotsSnapshot(Admin)
MvLogin == MvIdle /\ AdminLogin
MvLoadClick == MvIdle /\ \E id \in PotIds : LoadClick(id)
MvLoadDone == MvIdle /\ LoadDone
MvDetailSnapshot == MvIdle /\ DetailSnapshot
MvPaidToggle == MvIdle /\ \E id \in {IdPool[1], IdPool[2]} : PaidToggle(id, FALSE)
MvOpenMoveDialog == \E id \in {IdPool[1], IdPool[2]} : OpenMoveDialog(id)
MvMoveConfirm == MvCurrent /\ \E toPotId \in PotIds : MoveConfirm(toPotId)

NextMove ==
  \/ MvSnapshot
  \/ MvLogin
  \/ MvLoadClick
  \/ MvLoadDone
  \/ MvDetailSnapshot
  \/ MvPaidToggle
  \/ MvOpenMoveDialog
  \/ MvMoveConfirm
  \/ MoveDupEmail
  \/ MoveDupName
  \/ MoveAdd
  \/ MoveDelete
SpecMove == InitMove /\ [][NextMove]_vars

\* x is the copy of orig that a relocation out of pot `from' leaves in the
\* target: same identity, paid flag and applied_buyin, stamped with its origin
\* and the move instant
RelocatedFrom(x, orig, from) ==
  /\ x.name_lc = orig.name_lc /\ x.email_lc = orig.email_lc
  /\ x.name = orig.name /\ x.email = orig.email
  /\ x.paid = orig.paid /\ x.applied_buyin = orig.applied_buyin
  /\ x.moved_from = from /\ x.moved_at # NoNum

\* C28: with nothing else writing, a relocation adds to the target pot
\* exactly one entry, the copy of the moved one (identity, paid flag,
\* applied_buyin, moved_from, move instant), then removes the moved entry from
\* the origin pot; no other entry of either pot changes.
C28_RelocationIntegrity ==
  [][/\ move.pc = "add" /\ move'.pc = "delete" =>
          LET from == move.fromPotId
              to == move.toPotId
              new == DOMAIN entries'[to] \ DOMAIN entries[to]
          IN /\ move.entryId \in DOMAIN entries[from]
             /\ Cardinality(new) = 1
             /\ \A e \in new : RelocatedFrom(entries'[to][e],
                                             entries[from][move.entryId], from)
             /\ \A e \in DOMAIN entries[to] : entries'[to][e] = entries[to][e]
             /\ entries'[from] = entries[from]
     /\ move.pc = "delete" /\ move'.pc = "closed" =>
          LET from == move.fromPotId
              to == move.toPotId
          IN /\ move'.alert = Moved
             /\ entries'[from] = Del(entries[from], move.entryId)
             /\ entries'[to] = entries[to]
             /\ \E e \in DOMAIN entries[to] :
                  RelocatedFrom(entries[to][e], entries[from][move.entryId], from)]_vars
C28_Witness ==
  /\ move = Closed(Moved)
  /\ entries["A"] = EmptyMap
  /\ Cardinality(DOMAIN entries["B"]) = 2
  /\ \E e \in DOMAIN entries["B"] :
       /\ RelocatedFrom(entries["B"][e], [AnnEntry EXCEPT !.paid = TRUE], "A")
       /\ entries["B"][e].created_at = entries["B"][e].moved_at

\* ---------- Relocation into a pot that may hold the same name or email
\* As above, or pot B empty; meanwhile a second browser registers Ann in
\* pot B.
InitConflict == InitGate \/ InitMove
CfSnapshot == PotsSnapshot(Payer)
CfPotChange == onJoinPotChange(Payer, "B")
CfJoinClick == JoinClick(Payer, "Ann", "", "a@x.com", "Any", "Member", "Onsite")
CfJoinDupEmail == JoinDupEmail(Payer)
CfJoinDupName == JoinDupName(Payer)
CfJoinAdd == JoinAdd(Payer)
NextConflict ==
  \/ NextMove
  \/ CfSnapshot
  \/ CfPotChange
  \/ CfJoinClick
  \/ CfJoinDupEmail
  \/ CfJoinDupName
  \/ CfJoinAdd
SpecConflict == InitConflict /\ [][NextConflict]_vars

\* the target pot holds, when moveEntry asks, an entry with the moved
\* entry's normalized name
NameConflict == move.nameLC # <<>> /\ HasName(move.toPotId, move.nameLC)

RlEntries ==
  [p \in PotIds |->
     IF p = "A" THEN Put(EmptyMap, IdPool[1], [AnnEntry EXCEPT !.pay_type = "Stripe"])
     ELSE EmptyMap]
InitRelocate == InitOf(InitPots, RlEntries, 2)
RlCheckout == DirectCheckout("A", {})
NextRelocate ==
  \/ RlCheckout
  \/ PdDelivers
  \/ TtSnapshot
  \/ AdminLogin
  \/ GtLoadClick
  \/ LoadDone
  \/ DetailSnapshot
  \/ GtOpenMoveDialog
  \/ GtMoveConfirm
  \/ MoveDupEmail
  \/ MoveDupName
  \/ MoveAdd
  \/ MoveDelete
SpecRelocate == InitRelocate /\ [][NextRelocate]_vars

\* C30: when moveEntry deletes from the origin pot an entry that is marked
\* paid there, the target pot holds its relocated copy marked paid with the
\* same settled amount.
C30_RelocationKeepsPayment ==
  [][move.pc = "delete" /\ move'.pc = "closed"
       /\ move.entryId \in DOMAIN entries[move.fromPotId]
       /\ entries[move.fromPotId][move.entryId].paid
     => LET orig == entries[move.fromPotId][move.entryId]
        IN \E e \in DOMAIN entries'[move.toPotId] :
             LET x == entries'[move.toPotId][e]
             IN /\ x.moved_from = move.fromPotId
                /\ x.name_lc = orig.name_lc
                /\ x.paid
                /\ x.paid_amount = orig.paid_amount]_vars

\* ---------- Relocation that fails or is abandoned half way
\* Pot A holds Ann's registration; the admin moves registrations between the
\* two pots, and any awaited call of moveEntry may reject.
CrLoadClick == \E id \in PotIds : LoadClick(id)
CrOpenMoveDialog == \E id \in AutoIds : OpenMoveDialog(id)
CrMoveConfirm == \E toPotId \in PotIds : MoveConfirm(toPotId)
NextCrash ==
  \/ TtSnapshot
  \/ AdminLogin
  \/ CrLoadClick
  \/ LoadDone
  \/ DetailSnapshot
  \/ CrOpenMoveDialog
  \/ MoveCancel
  \/ CrMoveConfirm
  \/ MoveDupEmail
  \/ MoveDupName
  \/ MoveAdd
  \/ MoveDelete
  \/ MoveDbError
SpecCrash == InitGate /\ [][NextCrash]_vars

\* where Ann's registration is stored
AnnCopies ==
  {pe \in PotIds \X AutoIds :
     pe[2] \in DOMAIN entries[pe[1]] /\ entries[pe[1]][pe[2]].name_lc = <<"ann">>}

\* C31: during and after every move, failed or not, the participant's entry
\* is stored in at least one of the two pots; at worst it is stored in both.
C31_NeverLost ==
  /\ AnnCopies # {}
  /\ \A x, y \in AnnCopies : x # y => x[1] # y[1]
C31_Witness ==
  /\ move = Closed(MoveFailed)
  /\ \E x, y \in AnnCopies : x[1] = "A" /\ y[1] = "B" /\ entries["B"][y[2]].moved_from = "A"

\* the admin's Paid checkbox on some row
PaidOverride == \E id \in AutoIds, dbFails \in BOOLEAN : PaidToggle(id, dbFails)

\* C32: no step other than the admin's Paid override turns paid from true to
\* false: not on a stored entry document, and not on an entry that a
\* relocation carries from its origin pot into the target pot.
C32_PaidMonotone ==
  [][~PaidOverride =>
       /\ \A p \in PotIds : \A e \in DOMAIN entries[p] \cap DOMAIN entries'[p] :
            entries[p][e].paid => entries'[p][e].paid
       /\ move.pc = "delete" /\ move'.pc = "closed"
            /\ move.entryId \in DOMAIN entries[move.fromPotId]
            /\ entries[move.fromPotId][move.entryId].paid
          => \A e \in DOMAIN entries'[move.toPotId] :
               entries'[move.toPotId][e].moved_from = move.fromPotId
                 /\ entries'[move.toPotId][e].name_lc = move.nameLC
               => entries'[move.toPotId][e].paid]_vars


\* -------------------------------------------------------------- schedule
\* Pot A (no date) exists; the administrator's browser creates pot B with
\* any date and times, loads either pot and saves edits of its times.
ScCreate == \E when \in Whens : createPot("B", <<>>, when, FALSE)
ScSave == \E edit \in Edits : savePotEdits(<<>>, "open", edit, FALSE)

NextSchedule ==
  \/ ScCreate
  \/ ScSave
  \/ AdminLogin
  \/ ShLoadClick
  \/ LoadDone
  \/ TtSnapshot

SpecSchedule == InitPct /\ [][NextSchedule]_vars

\* a pot with a start instant has an end instant, not earlier than the start
Scheduled(pot) ==
  pot.start_at # NoNum => pot.end_at # NoNum /\ pot.end_at >= pot.start_at

\* C33: after any createPot and savePotEdits every pot that has a start
\* instant also has an end instant, the stored end is never earlier than the
\* stored start, and when no end time is supplied the stored end is the
\* start plus two hours.
C33_PotTimeInvariant ==
  [][/\ \A id \in DOMAIN pots' : Scheduled(pots'[id])
     /\ \A when \in Whens :
          (createPot("B", <<>>, when, FALSE) /\ when.endTime = <<>>
             /\ pots'["B"].start_at # NoNum)
            => pots'["B"].end_at = pots'["B"].start_at + TwoHours
     /\ \A edit \in Edits, id \in PotIds :
          (/\ savePotEdits(<<>>, "open", edit, FALSE)
           /\ CURRENT_DETAIL_POT[1].id = id /\ id \in DOMAIN pots
           /\ FieldValue(edit.endTime, Prefill(CURRENT_DETAIL_POT[1]).endTime) = <<>>
           /\ pots'[id].start_at # NoNum)
            => pots'[id].end_at = pots'[id].start_at + TwoHours]_vars


\* --------------------------------------------------------- subscriptions
\* Ann is registered in pot A.  The administrator's browser follows the
\* open-pots list, changes the pot selected on its join page, loads pot A
\* and then either pot, toggles Paid on Ann's registration and puts the
\* loaded pot on hold; its listeners deliver their snapshots.
SbPotChange == \E id \in PotIds : onJoinPotChange(Admin, id)
SbLoadClick == \E id \in PotIds : (CURRENT_DETAIL_POT # <<>> \/ id = "A") /\ LoadClick(id)

NextSubs ==
  \/ TtSnapshot
  \/ SbPotChange
  \/ TtTotals
  \/ AdminLogin
  \/ SbLoadClick
  \/ LoadDone
  \/ DetailSnapshot
  \/ GtPaidToggle
  \/ GtStatus

SpecSubs == InitGate /\ [][NextSubs]_vars

NextOrphan ==
  \/ NextRelocate
  \/ GtRemoveEntry

SpecOrphan == InitRelocate /\ [][NextOrphan]_vars

\* C35: handling an authenticated completed-payment event never creates an
\* entry: it leaves the set of entry documents of every pot as it was (also
\* when the entry it names was removed, or relocated under a new id), and
\* changes no document other than the one it names.
C35_CallbackNeverCreates ==
  [][\A s \in 1..Len(sessions), kind \in EventKinds :
       (IsCompletedKind(kind) /\ Delivery(s, kind, "both", FALSE, FALSE))
         => /\ \A p \in PotIds : DOMAIN entries'[p] = DOMAIN entries[p]
            /\ \A p \in PotIds : \A e \in DOMAIN entries[p] :
                 <<p, e>> # sessions[s].client_reference_id
                   => entries'[p][e] = entries[p][e]]_vars


\* ------------------------------------------ per-entry actions and the load
\* As the relocation scenario with failures, and the administrator may log
\* out and in again; a pot load (clicked, or started by a pot-list
\* notification) is answered at any moment.
NextStale ==
  \/ NextCrash
  \/ AdminLogout

SpecStale == InitGate /\ [][NextStale]_vars

\* a per-entry action on entry id can run: its row is shown with its
\* controls, or the Move dialog is open for it
Actionable(id) ==
  requireAdmin /\ (id \in DOMAIN rendered \/ (move.pc = "dialog" /\ move.entryId = id))
\* entry id is a document of a pot other than potId
HeldElsewhere(id, potId) == \E p \in PotIds \ {potId} : id \in DOMAIN entries[p]

\* C36: whenever a per-entry action can run, the entry it would act on is
\* not an entry of a pot other than CURRENT_DETAIL_POT (also between a pot
\* load and the first registrations snapshot of the new pot), so moveEntry
\* never takes as origin a pot other than the one holding the entry.
C36_ActionsTargetOwnPot ==
  /\ \A id \in AutoIds :
       Actionable(id) => ~HeldElsewhere(id, CURRENT_DETAIL_POT[1].id)
  /\ move.pc \in {"dupEmail", "dupName", "add", "delete"}
       => ~HeldElsewhere(move.entryId, move.fromPotId)


\* ------------------------------------------------- failed payment start
\* One browser admits, by card, Ann (with or without her e-mail address) and
\* Bob (with Ann's address), as member or guest, to pot A (card payments
\* enabled, guest buy-in $0.30) or pot B (card payments disabled); the
\* request to the payment server may be lost, unanswered or refused.
RtApplicants == {<<"Ann", "a@x.com">>, <<"Ann", "">>, <<"Bob", "a@x.com">>}
RtJoinClick ==
  \E who \in RtApplicants, member_type \in MemberTypes :
    JoinClick(Payer, who[1], "", who[2], "Any", member_type, "Stripe")

NextRetry ==
  \/ RcSnapshot
  \/ AdPotChange
  \/ RtJoinClick
  \/ AdJoinDupEmail
  \/ RcJoinDupName
  \/ RcJoinAdd
  \/ RcJoinDbError
  \/ RcJoinFetch

SpecRetry == Init /\ [][NextRetry]_vars

\* the messages with which joinPot gives up after its entry write
StartFailures ==
  {"Stripe is disabled for this event.", "Stripe requires a fee of at least $0.50.",
   "Network error contacting payment server.", "too_small", "gateway_error"}

\* C37: when joinPot with Stripe fails after the entry write (Stripe
\* disabled, amount below 50 minor units, network error, error response) the
\* entry it wrote is in the pot with paid = false and status active; no step
\* takes an entry away or changes it; and no later admission to that pot
\* under the same name or the same e-mail address writes an entry.
C37_FailedStartKept ==
  [][LET j == join[Payer]
         failed == /\ j.pc \in {"add", "fetch"}
                   /\ join'[Payer] = IdleJoin
                   /\ msg'[Payer] \in StartFailures
         id == IF j.pc = "add" THEN IdPool[nextId] ELSE j.entryId
     IN /\ failed
             => /\ id \in DOMAIN entries'[j.p.id]
                /\ entries'[j.p.id][id].paid = FALSE
                /\ entries'[j.p.id][id].status = "active"
                /\ entries'[j.p.id][id].name_lc = j.nameLC
                /\ entries'[j.p.id][id].email_lc = j.emailLC
        /\ \A p \in PotIds : \A e \in DOMAIN entries[p] :
              e \in DOMAIN entries'[p] /\ entries'[p][e] = entries[p][e]
        /\ (j.pc = "add" /\ entries' # entries)
             => \A e \in DOMAIN entries[j.p.id] :
                  /\ entries[j.p.id][e].name_lc # j.nameLC
                  /\ j.emailLC # "" => entries[j.p.id][e].email_lc # j.emailLC]_vars

\* one entry was written, its payment start failed (no session exists), it
\* is unpaid and active, and the next attempt was rejected as a duplicate
C37_Witness ==
  /\ nextId = 2
  /\ sessions = <<>>
  /\ join[Payer] = IdleJoin
  /\ msg[Payer] = "Duplicate registration"
  /\ \E p \in PotIds : \E e \in DOMAIN entries[p] :
       /\ ~entries[p][e].paid
       /\ entries[p][e].status = "active"
       /\ entries[p][e].pay_type = "Stripe"


\* ------------------------------------------------------- settled amount
\* C38: every entry that reconciliation has marked paid has paid_amount equal
\* to its applied_buyin in minor units, and no checkout session exists for a
\* pot and entry with an amount other than that entry's buy-in.
C38_SettledAmountMatches ==
  /\ \A p \in PotIds : \A e \in DOMAIN entries[p] :
       (entries[p][e].paid /\ entries[p][e].paid_at # NoNum)
         => entries[p][e].paid_amount = AmountCents(entries[p][e].applied_buyin)
  /\ \A s \in 1..Len(sessions) :
       LET p == sessions[s].metadata.pot_id
           e == sessions[s].metadata.entry_id
       IN (p \in PotIds /\ e \in DOMAIN entries[p])
            => sessions[s].amount_total = AmountCents(entries[p][e].applied_buyin)

====
